---------------------------- MODULE Spec2Model ----------------------------
(***************************************************************************)
(* Scenario scoring engine of emofichat: the threshold store               *)
(* (rules/thresholds.py), the rule table (rules/scenario_rules.py), the    *)
(* expression evaluator (app/util/eval_expr.py) and the scoring loop       *)
(* (app/services/scenario_engine.py).                                      *)
(*                                                                         *)
(* Conventions.                                                            *)
(*  - A number is an integer count of hundredths (30 is 3000, 0.8 is 80),  *)
(*    tagged with its Python type.  Every literal and every row value of   *)
(*    the model has at most one decimal, so products are exact.            *)
(*  - An expression is kept as its syntax tree; an identifier is the       *)
(*    sequence of the pieces of its text, cut wherever another field name  *)
(*    begins or ends inside it, so that Python's substring tests and       *)
(*    str.replace become tests and replacements of contiguous pieces.      *)
(*  - Hangul identifiers and string literals are written in revised        *)
(*    romanisation (the module text is ASCII), e.g. the field whose name   *)
(*    means "card application count" is "kadeusincheonggeonsu".            *)
(***************************************************************************)
EXTENDS Integers, Sequences, FiniteSets, TLC

----------------------------------------------------------------------------
(* Syntax trees of expression strings.  Call(f) is a call f(...) and         *)
(* Select(xs, n) the text [c for c in xs if c.__name__ == n][0].            *)

Num(v, ty)     == [k |-> "num", v |-> v, ty |-> ty]
Str(s)         == [k |-> "str", s |-> s]
Name(parts)    == [k |-> "name", id |-> parts]
Ph(name)       == [k |-> "ph", name |-> name]
Bin(op, l, r)  == [k |-> "bin", op |-> op, l |-> l, r |-> r]
List(items)    == [k |-> "list", items |-> items]
Attr(obj, a)   == [k |-> "attr", obj |-> obj, attr |-> a]
Call(f)        == [k |-> "call", f |-> f]
Select(xs, n)  == [k |-> "select", from |-> xs, name |-> n]
Tuple0         == [k |-> "tuple"]
Malformed      == [k |-> "bad"]

----------------------------------------------------------------------------
(* Python values *)

VInt(v)   == [t |-> "int", v |-> v]
VFloat(v) == [t |-> "float", v |-> v]
VBool(b)  == [t |-> "bool", v |-> IF b THEN 100 ELSE 0]
VStr(s)   == [t |-> "str", s |-> s]
VNone     == [t |-> "none"]
VNaN      == [t |-> "nan"]
VList(xs) == [t |-> "list", items |-> xs]
VObj(o)   == [t |-> "obj", o |-> o]
Exc(e)    == [t |-> "exc", e |-> e]

IsNum(x) == x.t \in {"int", "float", "bool"}
IsExc(x) == x.t = "exc"

----------------------------------------------------------------------------
_FIELD_MAPPING ==
  << [ko |-> <<"balgeubhoewonbeonho">>, en |-> <<"user_id">>],
     [ko |-> <<"namnyeogubunkodeu">>, en |-> <<"gender">>],
     [ko |-> <<"yeonryeong">>, en |-> <<"age">>],
     [ko |-> <<"geojusidomyeong">>, en |-> <<"residence">>],
     [ko |-> <<"jigjangsidomyeong">>, en |-> <<"workplace">>],
     [ko |-> <<"maketingdonguiyeobu">>, en |-> <<"marketing_agree">>],
     [ko |-> <<"iyongkadeusu_sinyong">>, en |-> <<"credit_card_count">>],
     [ko |-> <<"iyongkadeusu_chekeu">>, en |-> <<"check_card_count">>],
     [ko |-> <<"iyonggeumaeg_R3M_sinyong">>, en |-> <<"credit_us", "age", "_3m">>],
     [ko |-> <<"iyonggeumaeg_R3M_chekeu">>, en |-> <<"check_us", "age", "_3m">>],
     [ko |-> <<"_1sunwikadeuiyonggeumaeg">>, en |-> <<"top1_card_us", "age">>],
     [ko |-> <<"_2sunwikadeuiyonggeumaeg">>, en |-> <<"top2_card_us", "age">>],
     [ko |-> <<"choechohandogeumaeg">>, en |-> <<"first_limit_amount">>],
     [ko |-> <<"kadeuiyonghandogeumaeg">>, en |-> <<"current_limit_amount">>],
     [ko |-> <<"CAhandogeumaeg">>, en |-> <<"ca_limit_amount">>],
     [ko |-> <<"yeonche", "janaeg_B0M">>, en |-> <<"delinquent_", "balance_b0m">>],
     [ko |-> <<"yeonchejanaeg_CA_B0M">>, en |-> <<"delinquent_balance_ca_b0m">>],
     [ko |-> <<"yeoncheilsu_choegeun">>, en |-> <<"recent_delinquent_days">>],
     [ko |-> <<"choejongyeonchegaewolsu_R15M">>, en |-> <<"max_delinquent_months_r15m">>],
     [ko |-> <<"hoewonyeobu_yeonche">>, en |-> <<"is_", "delinquent">>],
     [ko |-> <<"jabalhandogamaeggeumaeg_R12M">>, en |-> <<"limit_down_amount_r12m">>],
     [ko |-> <<"handojeungaeggeumaeg_R12M">>, en |-> <<"limit_up_amount_r12m">>],
     [ko |-> <<"sanghyangganeunghandogeumaeg">>, en |-> <<"limit_up_available">>],
     [ko |-> <<"janaeg_B0M">>, en |-> <<"balance_b0m">>],
     [ko |-> <<"janaeg_ilsibul_B0M">>, en |-> <<"balance_lump_b0m">>],
     [ko |-> <<"janaeg_kadeuron_B0M">>, en |-> <<"balance_loan_b0m">>],
     [ko |-> <<"pyeongjan_3M">>, en |-> <<"avg_balance_3m">>],
     [ko |-> <<"pyeongjan_CA_3M">>, en |-> <<"avg_ca_balance_3m">>],
     [ko |-> <<"pyeongjan_kadeuron_3M">>, en |-> <<"avg_loan_balance_3m">>],
     [ko |-> <<"CAijayul_halinjeon">>, en |-> <<"ca_interest_rate">>],
     [ko |-> <<"RVchoesogyeoljebiyul">>, en |-> <<"revolving_min_payment_ratio">>],
     [ko |-> <<"iyonggeumaeg_syoping">>, en |-> <<"spending_shopping">>],
     [ko |-> <<"iyonggeumaeg_yosig">>, en |-> <<"spending_food">>],
     [ko |-> <<"iyonggeumaeg_gyotong">>, en |-> <<"spending_transport">>],
     [ko |-> <<"iyonggeumaeg_uiryo">>, en |-> <<"spending_medical">>],
     [ko |-> <<"iyonggeumaeg_nabbu">>, en |-> <<"spending_payment">>],
     [ko |-> <<"Life_St", "age">>, en |-> <<"life_st", "age">>],
     [ko |-> <<"kadeusincheonggeonsu">>, en |-> <<"card_application_count">>],
     [ko |-> <<"choejongkadeubalgeubgyeonggwawol">>, en |-> <<"last_card_issued_months_ago">>],
     [ko |-> <<"scenario_labels">>, en |-> <<"scenario_labels">>],
     [ko |-> <<"DTI_Estimate">>, en |-> <<"dti_estimate">>],
     [ko |-> <<"Spending_Change_Ratio">>, en |-> <<"spending_change_ratio">>],
     [ko |-> <<"Essential_Ratio">>, en |-> <<"essential_ratio">>],
     [ko |-> <<"Credit_Us", "age", "_Ratio">>, en |-> <<"credit_us", "age", "_ratio">>],
     [ko |-> <<"Debt_Ratio">>, en |-> <<"debt_ratio">>],
     [ko |-> <<"Revolving_Dependency">>, en |-> <<"revolving_dependency">>],
     [ko |-> <<"Necessity_Ratio">>, en |-> <<"necessity_ratio">>],
     [ko |-> <<"Housing_Ratio">>, en |-> <<"housing_ratio">>],
     [ko |-> <<"Medical_Ratio">>, en |-> <<"medical_ratio">>],
     [ko |-> <<"RV_pyeonggyunjanaeg_R3M">>, en |-> <<"avg_revolving_balance_3m">>],
     [ko |-> <<"RVjanaegiwolhoessu_R3M">>, en |-> <<"revolving_count_3m">>],
     [ko |-> <<"Stress_Index">>, en |-> <<"stress_index">>],
     [ko |-> <<"yeoncheilsu_B1M">>, en |-> <<"delinquent_days_b1m">>],
     [ko |-> <<"yeonchewongeum_choegeun">>, en |-> <<"recent_delinquent_principal">>],
     [ko |-> <<"Liquidity_Score">>, en |-> <<"liquidity_score">>],
     [ko |-> <<"wolbyeolchongseungingeumaeg">>, en |-> <<"monthly_approval_amount">>],
     [ko |-> <<"wolbyeolchongseungingeonsu">>, en |-> <<"monthly_approval_count">>],
     [ko |-> <<"iyonggeumaeg_sinyong_B0M">>, en |-> <<"credit_us", "age", "_b0m">>],
     [ko |-> <<"nabbu_jeoncheiyonggeumaeg">>, en |-> <<"total_payment_amount">>],
     [ko |-> <<"syoping_onrain_iyonggeumaeg">>, en |-> <<"online_shopping_amount">>],
     [ko |-> <<"syoping_jeonche_iyonggeumaeg">>, en |-> <<"total_shopping_amount">>],
     [ko |-> <<"VIPdeunggeubkodeu">>, en |-> <<"vip_grade">>] >>

_raw_rules ==
  << [name |-> "loan_rejected", priority |-> 1,
      gate |-> <<
        [expr |-> Bin(">", Name(<<"kadeusincheonggeonsu">>), Num(0, "int"))] >>,
      signals |-> <<
        [expr |-> Bin(">", Name(<<"gangjehandogamaeggeumaeg_R12M">>), Num(0, "int")),
         first |-> "gangjehandogamaeggeumaeg_R12M", weight |-> 2],
        [expr |-> Bin(">=", Name(<<"Stress_Index">>), Ph("STRESS_HIGH")),
         first |-> "Stress_Index", weight |-> 1],
        [expr |-> Bin("|", Bin(">", Name(<<"yeoncheilsu_B1M">>), Num(0, "int")), Bin(">", Name(<<"yeonche", "janaeg_B0M">>), Num(0, "int"))),
         first |-> "(yeoncheilsu_B1M", weight |-> 1] >>,
      modifiers |-> <<
        [expr |-> Bin("==", Name(<<"hoewonyeobu_yeonche">>), Str("Y")), delta |-> 1],
        [expr |-> Bin("in", Name(<<"VIPdeunggeubkodeu">>), List(<<Str("Gold"), Str("Platinum"), Str("Black")>>)), delta |-> -1] >>,
      threshold |-> 3, label |-> "loan_rejected"],
     [name |-> "loan_approved", priority |-> 2,
      gate |-> <<
        [expr |-> Bin(">", Name(<<"kadeusincheonggeonsu">>), Num(0, "int"))] >>,
      signals |-> <<
        [expr |-> Bin(">", Name(<<"handojeungaeggeumaeg_R12M">>), Num(0, "int")),
         first |-> "handojeungaeggeumaeg_R12M", weight |-> 2],
        [expr |-> Bin("==", Name(<<"yeoncheilsu_B1M">>), Num(0, "int")),
         first |-> "yeoncheilsu_B1M", weight |-> 1],
        [expr |-> Bin("<", Name(<<"Stress_Index">>), Ph("STRESS_HIGH")),
         first |-> "Stress_Index", weight |-> 1] >>,
      modifiers |-> <<
        [expr |-> Bin("in", Name(<<"VIPdeunggeubkodeu">>), List(<<Str("Gold"), Str("Platinum"), Str("Black")>>)), delta |-> 1] >>,
      threshold |-> 3, label |-> "loan_approved"],
     [name |-> "credit_down", priority |-> 3,
      gate |-> <<
        [expr |-> Bin("|", Bin(">", Name(<<"yeoncheilsu_B1M">>), Num(0, "int")), Bin(">", Name(<<"yeonche", "janaeg_B0M">>), Num(0, "int")))] >>,
      signals |-> <<
        [expr |-> Bin(">=", Name(<<"Stress_Index">>), Ph("STRESS_HIGH")),
         first |-> "Stress_Index", weight |-> 2],
        [expr |-> Bin(">", Name(<<"gangjehandogamaeggeumaeg_R12M">>), Num(0, "int")),
         first |-> "gangjehandogamaeggeumaeg_R12M", weight |-> 1],
        [expr |-> Bin(">", Name(<<"choejongyeonchegaewolsu_R15M">>), Num(0, "int")),
         first |-> "choejongyeonchegaewolsu_R15M", weight |-> 1] >>,
      modifiers |-> << >>,
      threshold |-> 3, label |-> "credit_down"],
     [name |-> "credit_up", priority |-> 4,
      gate |-> <<
        [expr |-> Bin("&", Bin("==", Name(<<"yeoncheilsu_B1M">>), Num(0, "int")), Bin("==", Name(<<"yeonche", "janaeg_B0M">>), Num(0, "int")))] >>,
      signals |-> <<
        [expr |-> Bin(">", Name(<<"handojeungaeggeumaeg_R12M">>), Num(0, "int")),
         first |-> "handojeungaeggeumaeg_R12M", weight |-> 2],
        [expr |-> Bin(">", Name(<<"sanghyangganeunghandogeumaeg">>), Num(0, "int")),
         first |-> "sanghyangganeunghandogeumaeg", weight |-> 1] >>,
      modifiers |-> << >>,
      threshold |-> 2, label |-> "credit_up"],
     [name |-> "interest_burden", priority |-> 5,
      gate |-> <<
        [expr |-> Bin(">", Name(<<"RV_pyeonggyunjanaeg_R3M">>), Num(0, "int"))],
        [expr |-> Bin(">", Name(<<"Revolving_Dependency">>), Num(0, "int"))] >>,
      signals |-> <<
        [expr |-> Bin(">=", Name(<<"RVjanaegiwolhoessu_R3M">>), Num(200, "int")),
         first |-> "RVjanaegiwolhoessu_R3M", weight |-> 2],
        [expr |-> Bin(">=", Name(<<"Revolving_Dependency">>), Ph("REVOLVING_P70")),
         first |-> "Revolving_Dependency", weight |-> 1],
        [expr |-> Bin(">", Name(<<"CAijayul_halinjeon">>), Num(1500, "int")),
         first |-> "CAijayul_halinjeon", weight |-> 1] >>,
      modifiers |-> <<
        [expr |-> Bin(">", Name(<<"janaeg_kadeuron_B0M">>), Num(0, "int")), delta |-> 1] >>,
      threshold |-> 3, label |-> "interest_burden"],
     [name |-> "card_payment_difficulty", priority |-> 6,
      gate |-> <<
        [expr |-> Bin(">=", Name(<<"Credit_Us", "age", "_Ratio">>), Ph("CREDIT_USAGE_P90"))] >>,
      signals |-> <<
        [expr |-> Bin(">=", Name(<<"RVjanaegiwolhoessu_R3M">>), Num(200, "int")),
         first |-> "RVjanaegiwolhoessu_R3M", weight |-> 1],
        [expr |-> Bin("&", Bin(">", Name(<<"yeoncheilsu_B1M">>), Num(0, "int")), Bin("<", Name(<<"yeoncheilsu_B1M">>), Num(3000, "int"))),
         first |-> "(yeoncheilsu_B1M", weight |-> 2],
        [expr |-> Bin(">", Name(<<"janaeg_B0M">>), Name(<<"pyeongjan_3M">>)),
         first |-> "janaeg_B0M", weight |-> 1] >>,
      modifiers |-> <<
        [expr |-> Bin(">=", Name(<<"Necessity_Ratio">>), Ph("NEC_P80")), delta |-> 1] >>,
      threshold |-> 3, label |-> "card_payment_difficulty"],
     [name |-> "delinquency", priority |-> 7,
      gate |-> <<
        [expr |-> Bin("|", Bin(">=", Name(<<"yeoncheilsu_B1M">>), Num(3000, "int")), Bin(">=", Name(<<"yeoncheilsu_choegeun">>), Num(3000, "int")))] >>,
      signals |-> <<
        [expr |-> Bin(">", Name(<<"yeonche", "janaeg_B0M">>), Num(0, "int")),
         first |-> "yeonchejanaeg_B0M", weight |-> 2],
        [expr |-> Bin(">", Name(<<"choejongyeonchegaewolsu_R15M">>), Num(0, "int")),
         first |-> "choejongyeonchegaewolsu_R15M", weight |-> 1] >>,
      modifiers |-> <<
        [expr |-> Bin(">", Name(<<"yeonchewongeum_choegeun">>), Num(50000000, "int")), delta |-> 1] >>,
      threshold |-> 3, label |-> "delinquency"],
     [name |-> "low_cash", priority |-> 8,
      gate |-> <<
        [expr |-> Bin("<=", Name(<<"Liquidity_Score">>), Ph("LIQ_P20"))] >>,
      signals |-> <<
        [expr |-> Bin(">=", Name(<<"Necessity_Ratio">>), Ph("NEC_P80")),
         first |-> "Necessity_Ratio", weight |-> 2],
        [expr |-> Bin("<", Name(<<"pyeongjan_3M">>), Num(30000000, "int")),
         first |-> "pyeongjan_3M", weight |-> 1],
        [expr |-> Bin(">=", Bin("+", Bin("+", Name(<<"iyonggeumaeg_syoping">>), Name(<<"iyonggeumaeg_yosig">>)), Name(<<"iyonggeumaeg_nabbu">>)), Bin("*", Name(<<"wolbyeolchongseungingeumaeg">>), Num(60, "float"))),
         first |-> "(iyonggeumaeg_syoping", weight |-> 1] >>,
      modifiers |-> <<
        [expr |-> Bin("in", Name(<<"Life_St", "age">>), List(<<Str("1ingagu"), Str("daehagsaeng")>>)), delta |-> 1],
        [expr |-> Bin("in", Name(<<"VIPdeunggeubkodeu">>), List(<<Str("Gold"), Str("Platinum"), Str("Black")>>)), delta |-> -1] >>,
      threshold |-> 3, label |-> "low_cash"],
     [name |-> "debt_crisis", priority |-> 9,
      gate |-> <<
        [expr |-> Bin(">=", Name(<<"Debt_Ratio">>), Ph("DEBT_P80"))] >>,
      signals |-> <<
        [expr |-> Bin("|", Bin(">", Name(<<"yeoncheilsu_B1M">>), Num(0, "int")), Bin(">", Name(<<"yeonche", "janaeg_B0M">>), Num(0, "int"))),
         first |-> "(yeoncheilsu_B1M", weight |-> 2],
        [expr |-> Bin(">=", Name(<<"RVjanaegiwolhoessu_R3M">>), Num(300, "int")),
         first |-> "RVjanaegiwolhoessu_R3M", weight |-> 1],
        [expr |-> Bin(">=", Name(<<"Credit_Us", "age", "_Ratio">>), Ph("CREDIT_USAGE_P90")),
         first |-> "Credit_Usage_Ratio", weight |-> 1] >>,
      modifiers |-> <<
        [expr |-> Bin(">", Name(<<"janaeg_B0M">>), Bin("*", Name(<<"pyeongjan_3M">>), Num(300, "int"))), delta |-> 1] >>,
      threshold |-> 3, label |-> "debt_crisis"],
     [name |-> "job_loss", priority |-> 10,
      gate |-> <<
        [expr |-> Bin("<", Name(<<"wolbyeolchongseungingeumaeg">>), Bin("*", Name(<<"iyonggeumaeg_R3M_sinyong">>), Num(50, "float")))] >>,
      signals |-> <<
        [expr |-> Bin("&", Bin(">", Name(<<"iyonggeumaeg_R3M_sinyong">>), Num(0, "int")), Bin("<", Name(<<"wolbyeolchongseungingeumaeg">>), Num(10000000, "int"))),
         first |-> "(iyonggeumaeg_R3M_sinyong", weight |-> 2],
        [expr |-> Bin("<", Name(<<"wolbyeolchongseungingeonsu">>), Num(500, "int")),
         first |-> "wolbyeolchongseungingeonsu", weight |-> 1] >>,
      modifiers |-> <<
        [expr |-> Bin("&", Bin(">=", Name(<<"yeonryeong">>), Num(3500, "int")), Bin("<=", Name(<<"yeonryeong">>), Num(5500, "int"))), delta |-> 1],
        [expr |-> Bin("<", Name(<<"nabbu_jeoncheiyonggeumaeg">>), Bin("*", Name(<<"nabbu_jeoncheiyonggeumaeg", "_jeonwol">>), Num(70, "float"))), delta |-> 1] >>,
      threshold |-> 2, label |-> "job_loss"],
     [name |-> "investment_loss", priority |-> 11,
      gate |-> <<
        [expr |-> Bin("<", Name(<<"pyeongjan_3M">>), Bin("*", Name(<<"iyonggeumaeg_R3M_sinyong">>), Num(30, "float")))] >>,
      signals |-> <<
        [expr |-> Bin(">", Name(<<"yeoncheilsu_B1M">>), Num(0, "int")),
         first |-> "yeoncheilsu_B1M", weight |-> 1],
        [expr |-> Bin("<=", Name(<<"Liquidity_Score">>), Ph("LIQ_P20")),
         first |-> "Liquidity_Score", weight |-> 2],
        [expr |-> Bin("<", Name(<<"wolbyeolchongseungingeumaeg">>), Bin("*", Name(<<"iyonggeumaeg_R3M_sinyong">>), Num(70, "float"))),
         first |-> "wolbyeolchongseungingeumaeg", weight |-> 1] >>,
      modifiers |-> <<
        [expr |-> Bin("in", Name(<<"VIPdeunggeubkodeu">>), List(<<Str("Gold"), Str("Platinum"), Str("Black")>>)), delta |-> 1] >>,
      threshold |-> 2, label |-> "investment_loss"],
     [name |-> "financial_hope", priority |-> 12,
      gate |-> <<
        [expr |-> Bin(">", Name(<<"Liquidity_Score">>), Num(0, "int"))],
        [expr |-> Bin(">=", Name(<<"Liquidity_Score">>), Ph("LIQ_P80"))] >>,
      signals |-> <<
        [expr |-> Bin(">", Name(<<"sanghyangganeunghandogeumaeg">>), Num(0, "int")),
         first |-> "sanghyangganeunghandogeumaeg", weight |-> 1],
        [expr |-> Bin("&", Bin("==", Name(<<"yeoncheilsu_B1M">>), Num(0, "int")), Bin("==", Name(<<"yeonche", "janaeg_B0M">>), Num(0, "int"))),
         first |-> "(yeoncheilsu_B1M", weight |-> 1],
        [expr |-> Bin(">", Name(<<"pyeongjan_3M">>), Num(500000000, "int")),
         first |-> "pyeongjan_3M", weight |-> 1] >>,
      modifiers |-> <<
        [expr |-> Bin("in", Name(<<"VIPdeunggeubkodeu">>), List(<<Str("Gold"), Str("Platinum"), Str("Black")>>)), delta |-> 1],
        [expr |-> Bin(">", Name(<<"handojeungaeggeumaeg_R12M">>), Num(0, "int")), delta |-> 1] >>,
      threshold |-> 2, label |-> "financial_hope"],
     [name |-> "recovering_debtor", priority |-> 13,
      gate |-> <<
        [expr |-> Bin("&", Bin(">", Name(<<"choejongyeonchegaewolsu_R15M">>), Num(0, "int")), Bin("==", Name(<<"yeoncheilsu_B1M">>), Num(0, "int")))] >>,
      signals |-> <<
        [expr |-> Bin("==", Name(<<"yeonche", "janaeg_B0M">>), Num(0, "int")),
         first |-> "yeonchejanaeg_B0M", weight |-> 2],
        [expr |-> Bin("<", Name(<<"RVjanaegiwolhoessu_R3M">>), Num(100, "int")),
         first |-> "RVjanaegiwolhoessu_R3M", weight |-> 1],
        [expr |-> Bin("<", Name(<<"Debt_Ratio">>), Ph("DEBT_P50")),
         first |-> "Debt_Ratio", weight |-> 1] >>,
      modifiers |-> <<
        [expr |-> Bin(">", Name(<<"handojeungaeggeumaeg_R12M">>), Num(0, "int")), delta |-> 1] >>,
      threshold |-> 2, label |-> "recovering_debtor"],
     [name |-> "emotional_spending", priority |-> 14,
      gate |-> <<
        [expr |-> Bin(">", Name(<<"wolbyeolchongseungingeonsu">>), Num(1500, "int"))] >>,
      signals |-> <<
        [expr |-> Bin(">", Name(<<"iyonggeumaeg_syoping">>), Bin("*", Name(<<"iyonggeumaeg_R3M_sinyong">>), Num(50, "float"))),
         first |-> "iyonggeumaeg_syoping", weight |-> 2],
        [expr |-> Bin(">", Name(<<"syoping_onrain_iyonggeumaeg">>), Bin("*", Name(<<"syoping_jeonche_iyonggeumaeg">>), Num(70, "float"))),
         first |-> "syoping_onrain_iyonggeumaeg", weight |-> 1],
        [expr |-> Bin(">", Name(<<"iyonggeumaeg_sinyong_B0M">>), Bin("*", Name(<<"pyeongjan_3M">>), Num(120, "float"))),
         first |-> "iyonggeumaeg_sinyong_B0M", weight |-> 1] >>,
      modifiers |-> <<
        [expr |-> Bin("<", Name(<<"Necessity_Ratio">>), Ph("NEC_P20")), delta |-> 1] >>,
      threshold |-> 3, label |-> "emotional_spending"] >>

----------------------------------------------------------------------------
(* Text of identifiers *)

RECURSIVE Text(_)
\* The identifier spelled by a sequence of pieces.
Text(parts) == IF parts = <<>> THEN "" ELSE Head(parts) \o Text(Tail(parts))

\* Python's `a in b` on strings, for identifiers: a is a contiguous run of b.
Occurs(a, b) ==
  \E i \in 1..(Len(b) - Len(a) + 1) : SubSeq(b, i, i + Len(a) - 1) = a

RECURSIVE Replace(_, _, _)
\* Python's b.replace(a, c), for identifiers: every run a of b, left to right.
Replace(b, a, c) ==
  IF Len(b) < Len(a) THEN b
  ELSE IF SubSeq(b, 1, Len(a)) = a
       THEN c \o Replace(SubSeq(b, Len(a) + 1, Len(b)), a, c)
       ELSE <<Head(b)>> \o Replace(Tail(b), a, c)

----------------------------------------------------------------------------
(* rules/thresholds.py *)

\* Module-level defaults, exposed as the dict `thresholds`.
DefaultThresholds ==
  [ LIQ_P20 |-> VInt(3000), LIQ_P80 |-> VInt(7000),
    DEBT_P80 |-> VInt(8000), DEBT_P50 |-> VInt(5000),
    NEC_P80 |-> VFloat(80), NEC_P20 |-> VFloat(20),
    STRESS_HIGH |-> VInt(7000),
    HOUSING_P70 |-> VFloat(30),
    MEDICAL_P80 |-> VFloat(20),
    CREDIT_USAGE_P90 |-> VInt(9000),
    REVOLVING_P70 |-> VFloat(70) ]

\* The stores load_from_stats performs, in program order.  A quantile list is
\* a 7-element sequence; Python's q[i] is q[i+1] here.
load_from_stats_writes(stats) ==
     (IF "liquidity_score_q" \in DOMAIN stats
      THEN << <<"LIQ_P20", stats["liquidity_score_q"][2]>>,
              <<"LIQ_P80", stats["liquidity_score_q"][6]>> >> ELSE <<>>)
  \o (IF "debt_ratio_q" \in DOMAIN stats
      THEN << <<"DEBT_P80", stats["debt_ratio_q"][6]>>,
              <<"DEBT_P50", stats["debt_ratio_q"][3]>> >> ELSE <<>>)
  \o (IF "necessity_ratio_q" \in DOMAIN stats
      THEN << <<"NEC_P80", stats["necessity_ratio_q"][6]>>,
              <<"NEC_P20", stats["necessity_ratio_q"][1]>> >> ELSE <<>>)
  \o (IF {"stress_index_mu", "stress_index_sigma"} \subseteq DOMAIN stats
      THEN << <<"STRESS_HIGH",
                [t |-> IF "float" \in {stats["stress_index_mu"].t,
                                       stats["stress_index_sigma"].t}
                       THEN "float" ELSE "int",
                 v |-> stats["stress_index_mu"].v
                       + stats["stress_index_sigma"].v]>> >> ELSE <<>>)
  \o (IF "housing_ratio_q" \in DOMAIN stats
      THEN << <<"HOUSING_P70", stats["housing_ratio_q"][5]>> >> ELSE <<>>)
  \o (IF "medical_ratio_q" \in DOMAIN stats
      THEN << <<"MEDICAL_P80", stats["medical_ratio_q"][6]>> >> ELSE <<>>)
  \o (IF "credit_usage_ratio_q" \in DOMAIN stats
      THEN << <<"CREDIT_USAGE_P90", stats["credit_usage_ratio_q"][7]>> >>
      ELSE <<>>)
  \o (IF "revolving_dependency_q" \in DOMAIN stats
      THEN << <<"REVOLVING_P70", stats["revolving_dependency_q"][5]>> >>
      ELSE <<>>)

\* thresholds[name] = value
Store(th, name, value) ==
  [n \in DOMAIN th \cup {name} |-> IF n = name THEN value ELSE th[n]]

----------------------------------------------------------------------------
(* rules/scenario_rules.py: bind_placeholders *)

\* str(value) read back as a literal of the expression text.
Literal(value) == Num(value.v, value.t)

RECURSIVE Format(_, _)
\* expr.format(**params): every {NAME} becomes str(params[NAME]).
Format(e, params) ==
  CASE e.k = "ph"   -> Literal(params[e.name])
    [] e.k = "bin"  -> Bin(e.op, Format(e.l, params), Format(e.r, params))
    [] OTHER        -> e

FormatEntries(entries, params) ==
  [i \in DOMAIN entries |->
     [entries[i] EXCEPT !.expr = Format(entries[i].expr, params)]]

bind_placeholders(rules, params) ==
  [i \in DOMAIN rules |->
     [rules[i] EXCEPT !.gate = FormatEntries(rules[i].gate, params),
                      !.signals = FormatEntries(rules[i].signals, params),
                      !.modifiers = FormatEntries(rules[i].modifiers, params)]]

----------------------------------------------------------------------------
(* app/util/eval_expr.py *)

\* Threshold names the evaluator knows; _TH = \{([A-Z_]+)\} matches a
\* placeholder only when its name has no digit.
default_thresholds ==
  [ CREDIT_USAGE_P90 |-> VInt(9000), LIQ_P20 |-> VInt(3000),
    LIQ_P80 |-> VInt(7000), DEBT_P80 |-> VInt(8000),
    DEBT_P50 |-> VInt(5000), NEC_P80 |-> VFloat(80), NEC_P20 |-> VFloat(20),
    STRESS_HIGH |-> VInt(7000), HOUSING_P70 |-> VFloat(30),
    MEDICAL_P80 |-> VFloat(20), REVOLVING_P70 |-> VFloat(70) ]

DigitFreeNames == {"STRESS_HIGH", "UNKNOWN_LIMIT"}
_TH_matches(name) == name \in DigitFreeNames

\* th.update(default_thresholds): the built-in values replace the table's.
fill_defaults_overwriting(th) ==
  [n \in DOMAIN th \cup DOMAIN default_thresholds |->
     IF n \in DOMAIN default_thresholds THEN default_thresholds[n] ELSE th[n]]

\* Lines 113-115: names missing from th are added to th itself.
fill_defaults(th) ==
  [n \in DOMAIN th \cup DOMAIN default_thresholds |->
     IF n \in DOMAIN th THEN th[n] ELSE default_thresholds[n]]

\* Line 90-94: Decimal values become floats in a copy of the row.
copy_row(row) ==
  [key \in DOMAIN row |->
     IF row[key].t = "decimal" THEN VFloat(row[key].v) ELSE row[key]]

RECURSIVE Leaves(_)
Leaves(e) ==
  CASE e.k = "bin"  -> Leaves(e.l) \cup Leaves(e.r)
    [] e.k = "list" -> UNION {Leaves(e.items[i]) : i \in DOMAIN e.items}
    [] e.k = "attr" -> Leaves(e.obj)
    [] e.k = "call" -> Leaves(e.f)
    [] e.k = "select" -> Leaves(e.from)
    [] OTHER        -> {e}

BareThresholds == <<"CREDIT_USAGE_P90", "LIQ_P20", "LIQ_P80", "DEBT_P80">>

RECURSIVE SubstBare(_, _, _)
\* expr.replace(NAME, str(value)) on the identifier NAME.
SubstBare(e, name, value) ==
  CASE e.k = "name" -> IF e.id = <<name>> THEN Literal(value) ELSE e
    [] e.k = "bin"  -> Bin(e.op, SubstBare(e.l, name, value),
                                 SubstBare(e.r, name, value))
    [] e.k = "list" -> List([i \in DOMAIN e.items |->
                               SubstBare(e.items[i], name, value)])
    [] e.k = "attr" -> Attr(SubstBare(e.obj, name, value), e.attr)
    [] e.k = "call" -> Call(SubstBare(e.f, name, value))
    [] e.k = "select" -> Select(SubstBare(e.from, name, value), e.name)
    [] OTHER        -> e

RECURSIVE subst_bare_thresholds(_, _, _)
\* Lines 118-125, one `if` per name of BareThresholds from index i on.
subst_bare_thresholds(e, th, i) ==
  IF i > Len(BareThresholds) THEN e
  ELSE LET name == BareThresholds[i]
           hit  == /\ Name(<<name>>) \in Leaves(e)
                   /\ Ph(name) \notin Leaves(e)
       IN subst_bare_thresholds(
            IF hit THEN SubstBare(e, name, th[name]) ELSE e, th, i + 1)

RECURSIVE subst_TH(_, _)
\* Line 127: _TH.sub(lambda m: str(th.get(m.group(1), "math.nan")), expr)
subst_TH(e, th) ==
  CASE e.k = "ph"   -> IF _TH_matches(e.name)
                       THEN IF e.name \in DOMAIN th THEN Literal(th[e.name])
                            ELSE Attr(Name(<<"math">>), "nan")
                       ELSE e
    [] e.k = "bin"  -> Bin(e.op, subst_TH(e.l, th), subst_TH(e.r, th))
    [] e.k = "list" -> List([i \in DOMAIN e.items |-> subst_TH(e.items[i], th)])
    [] e.k = "attr" -> Attr(subst_TH(e.obj, th), e.attr)
    [] e.k = "call" -> Call(subst_TH(e.f, th))
    [] e.k = "select" -> Select(subst_TH(e.from, th), e.name)
    [] OTHER        -> e

_OP == [a \in {"&", "|"} |-> IF a = "&" THEN "and" ELSE "or"]

RECURSIVE replace_operators(_)
\* Lines 130-131.
replace_operators(e) ==
  CASE e.k = "bin"  -> Bin(IF e.op \in DOMAIN _OP THEN _OP[e.op] ELSE e.op,
                           replace_operators(e.l), replace_operators(e.r))
    [] e.k = "list" -> List([i \in DOMAIN e.items |->
                               replace_operators(e.items[i])])
    [] e.k = "attr" -> Attr(replace_operators(e.obj), e.attr)
    [] e.k = "call" -> Call(replace_operators(e.f))
    [] e.k = "select" -> Select(replace_operators(e.from), e.name)
    [] OTHER        -> e

\* The identifier is left as the rule table spells it.
translate_id_untranslated(id, i) == id

RECURSIVE translate_id(_, _)
\* Lines 134-136 on one identifier, for the mapping's entries from index i on
\* in the dict's order: the next entry whose key occurs in the identifier is
\* applied, and the scan goes on after it.
translate_id(id, i) ==
  LET hits == {j \in i..Len(_FIELD_MAPPING) : Occurs(_FIELD_MAPPING[j].ko, id)}
  IN IF hits = {} THEN id
     ELSE LET j == CHOOSE h \in hits : \A g \in hits : h <= g
          IN translate_id(Replace(id, _FIELD_MAPPING[j].ko, _FIELD_MAPPING[j].en),
                          j + 1)

RECURSIVE translate_fields(_)
translate_fields(e) ==
  CASE e.k = "name" -> Name(translate_id(e.id, 1))
    [] e.k = "bin"  -> Bin(e.op, translate_fields(e.l), translate_fields(e.r))
    [] e.k = "list" -> List([i \in DOMAIN e.items |->
                               translate_fields(e.items[i])])
    [] e.k = "attr" -> Attr(translate_fields(e.obj), e.attr)
    [] e.k = "call" -> Call(translate_fields(e.f))
    [] e.k = "select" -> Select(translate_fields(e.from), e.name)
    [] OTHER        -> e

\* Line 140: the canonical keys whose text occurs in the expression.
keys_in_expr(e) ==
  {_FIELD_MAPPING[i].en : i \in
     {j \in DOMAIN _FIELD_MAPPING :
        \E leaf \in Leaves(e) :
           leaf.k = "name" /\ Occurs(_FIELD_MAPPING[j].en, leaf.id)}}

\* Lines 143-148.
default_for(key) ==
  IF key = <<"card_application_count">> THEN VInt(0)
  ELSE IF Head(key) \in {"is_", "has_"} THEN VBool(FALSE)
  ELSE VFloat(0)

\* The default of every canonical key occurring in the text, by key text.
defaults_for_text(e) ==
  LET keys == keys_in_expr(e)
  IN [s \in {Text(key) : key \in keys} |->
        default_for(CHOOSE key \in keys : Text(key) = s)]

\* Lines 154-165.  NotFound stands for the early `return False`.
NotFound == [k |-> "notfound"]

RECURSIVE subst_brackets(_, _)
subst_brackets(e, th) ==
  CASE e.k = "ph"   -> IF e.name \in DOMAIN th THEN Literal(th[e.name])
                       ELSE IF e.name \in DOMAIN default_thresholds
                            THEN Literal(default_thresholds[e.name])
                            ELSE NotFound
    [] e.k = "bin"  -> Bin(e.op, subst_brackets(e.l, th), subst_brackets(e.r, th))
    [] e.k = "list" -> List([i \in DOMAIN e.items |->
                               subst_brackets(e.items[i], th)])
    [] e.k = "attr" -> Attr(subst_brackets(e.obj, th), e.attr)
    [] e.k = "call" -> Call(subst_brackets(e.f, th))
    [] e.k = "select" -> Select(subst_brackets(e.from, th), e.name)
    [] OTHER        -> e

----------------------------------------------------------------------------
(* Python's eval(expr, sandbox, temp_row), line 167-168 *)

\* bool(x)
Truthy(x) ==
  CASE IsNum(x)      -> x.v # 0
    [] x.t = "str"   -> x.s # ""
    [] x.t = "list"  -> x.items # <<>>
    [] x.t = "none"  -> FALSE
    [] OTHER         -> TRUE

NumType(a, b) == IF "float" \in {a.t, b.t} THEN "float" ELSE "int"

\* a * b in hundredths; exact because both operands have at most one decimal.
Mul(a, b) == (a \div 10) * (b \div 10)

RECURSIVE Repeat(_, _)
Repeat(s, n) == IF n <= 0 THEN "" ELSE s \o Repeat(s, n - 1)

\* x == y
PyEq(x, y) ==
  CASE IsNum(x) /\ IsNum(y)            -> x.v = y.v
    [] x.t = "str" /\ y.t = "str"      -> x.s = y.s
    [] x.t = "none" /\ y.t = "none"    -> TRUE
    [] x.t = "obj" /\ y.t = "obj"      -> x.o = y.o
    [] OTHER                           -> FALSE

\* x < y, x <= y, x > y, x >= y on operands that are not strings both.
PyOrder(op, x, y) ==
  CASE IsNum(x) /\ IsNum(y) ->
         VBool(CASE op = "<"  -> x.v < y.v
                 [] op = "<=" -> x.v <= y.v
                 [] op = ">"  -> x.v > y.v
                 [] op = ">=" -> x.v >= y.v)
    [] (IsNum(x) \/ x.t = "nan") /\ (IsNum(y) \/ y.t = "nan") -> VBool(FALSE)
    [] ~(x.t = "str" /\ y.t = "str") -> Exc("TypeError")

PyAdd(x, y) ==
  CASE IsNum(x) /\ IsNum(y)          -> [t |-> NumType(x, y), v |-> x.v + y.v]
    [] x.t = "str" /\ y.t = "str"    -> VStr(x.s \o y.s)
    [] (IsNum(x) \/ x.t = "nan") /\ (IsNum(y) \/ y.t = "nan") -> VNaN
    [] OTHER                         -> Exc("TypeError")

PyMul(x, y) ==
  CASE IsNum(x) /\ IsNum(y)          -> [t |-> NumType(x, y), v |-> Mul(x.v, y.v)]
    [] x.t = "str" /\ y.t \in {"int", "bool"} -> VStr(Repeat(x.s, y.v \div 100))
    [] y.t = "str" /\ x.t \in {"int", "bool"} -> VStr(Repeat(y.s, x.v \div 100))
    [] (IsNum(x) \/ x.t = "nan") /\ (IsNum(y) \/ y.t = "nan") -> VNaN
    [] OTHER                         -> Exc("TypeError")

\* x & y, x | y as Python evaluates them when the glyph is left in the text.
PyBit(op, x, y) ==
  CASE x.t = "bool" /\ y.t = "bool" ->
         VBool(IF op = "&" THEN x.v # 0 /\ y.v # 0 ELSE x.v # 0 \/ y.v # 0)
    [] ~(x.t \in {"int", "bool"} /\ y.t \in {"int", "bool"}) -> Exc("TypeError")

\* Attributes of the math module that are plain numbers / functions.
MathFunctions == {"sqrt", "floor", "factorial"}

\* s.upper(), for the strings a row holds.
upper(s) == IF s = "Gold" THEN "GOLD" ELSE s

\* getattr(x, a)
PyGetAttr(x, a) ==
  CASE x.t = "obj" /\ x.o = "math" /\ a = "nan"  -> VNaN
    [] x.t = "obj" /\ x.o = "math" /\ a = "pi"   -> VFloat(314)
    [] x.t = "obj" /\ x.o = "math" /\ a \in MathFunctions -> VObj("math." \o a)
    [] a = "__class__"                           -> VObj("type")
    [] x.t = "obj" /\ x.o = "type" /\ a = "__base__" -> VObj("object")
    [] x.t = "obj" /\ x.o = "object" /\ a = "__subclasses__"
                                                 -> VObj("object.__subclasses__")
    [] x.t = "str" /\ a = "upper"                ->
         [t |-> "method", o |-> "str.upper", self |-> x]
    [] OTHER                                     -> Exc("AttributeError")

\* f(...) for the callables above; "every loaded class" stands for the list
\* object.__subclasses__() hands back.
PyCall(f) ==
  CASE f.t = "obj" /\ f.o = "object.__subclasses__" -> VObj("every loaded class")
    [] f.t = "method" /\ f.o = "str.upper"          -> VStr(upper(f.self.s))
    [] f.t = "obj" /\ f.o = "math.sqrt"             -> VFloat(200)
    [] f.t = "obj" /\ f.o = "math.floor"            -> VInt(200)
    [] f.t = "obj" /\ f.o = "math.factorial"        -> VInt(200)
    [] f.t = "obj" /\ f.o = "class Quitter"         -> VObj("Quitter instance")
    [] f.t = "obj" /\ f.o = "Quitter instance"      -> Exc("SystemExit")
    [] OTHER                                        -> Exc("TypeError")

\* [c for c in xs if c.__name__ == n][0]; site.Quitter is always loaded.
PySelect(xs, n) ==
  CASE xs.t = "obj" /\ xs.o = "every loaded class" /\ n = "Quitter"
                                                    -> VObj("class Quitter")
    [] xs.t = "obj" /\ xs.o = "every loaded class" /\ n # "Quitter"
                                                    -> Exc("IndexError")
    [] xs.t = "list"                                -> Exc("AttributeError")
    [] OTHER                                        -> Exc("TypeError")

RECURSIVE PyEval(_, _)
\* The value of the expression, or Exc(..) when evaluation raises.  Names are
\* looked up in temp_row (locals), then in the sandbox globals
\* {"__builtins__": {}, "math": math}.
PyEval(e, env) ==
  CASE e.k = "num"  -> [t |-> e.ty, v |-> e.v]
    [] e.k = "str"  -> VStr(e.s)
    [] e.k = "tuple" -> VObj("()")
    [] e.k = "name" ->
         LET key == Text(e.id)
         IN IF key \in DOMAIN env THEN env[key]
            ELSE IF key = "math" THEN VObj("math")
            ELSE IF key = "__builtins__" THEN VObj("{}")
            ELSE Exc("NameError")
    [] e.k = "ph"   -> Exc("NameError")
    [] e.k = "bad"  -> Exc("SyntaxError")
    [] e.k = "list" ->
         LET xs == [i \in DOMAIN e.items |-> PyEval(e.items[i], env)]
         IN IF \E i \in DOMAIN xs : IsExc(xs[i])
            THEN xs[CHOOSE i \in DOMAIN xs :
                      IsExc(xs[i]) /\ \A j \in 1..(i - 1) : ~IsExc(xs[j])]
            ELSE VList(xs)
    [] e.k = "attr" ->
         LET x == PyEval(e.obj, env)
         IN IF IsExc(x) THEN x ELSE PyGetAttr(x, e.attr)
    [] e.k = "call" ->
         LET f == PyEval(e.f, env)
         IN IF IsExc(f) THEN f ELSE PyCall(f)
    [] e.k = "select" ->
         LET xs == PyEval(e.from, env)
         IN IF IsExc(xs) THEN xs ELSE PySelect(xs, e.name)
    [] e.k = "bin" /\ e.op \in {"and", "or"} ->
         LET x == PyEval(e.l, env)
         IN IF IsExc(x) THEN x
            ELSE IF Truthy(x) = (e.op = "and") THEN PyEval(e.r, env) ELSE x
    [] e.k = "bin" /\ e.op \notin {"and", "or"} ->
         LET x == PyEval(e.l, env)
             y == PyEval(e.r, env)
         IN IF IsExc(x) THEN x
            ELSE IF IsExc(y) THEN y
            ELSE CASE e.op \in {"<", "<=", ">", ">="} -> PyOrder(e.op, x, y)
                   [] e.op = "=="  -> VBool(PyEq(x, y))
                   [] e.op = "!="  -> VBool(~PyEq(x, y))
                   [] e.op = "in"  ->
                        IF y.t = "list"
                        THEN VBool(\E i \in DOMAIN y.items : PyEq(x, y.items[i]))
                        ELSE Exc("TypeError")
                   [] e.op = "+"   -> PyAdd(x, y)
                   [] e.op = "*"   -> PyMul(x, y)
                   [] e.op \in {"&", "|"} -> PyBit(e.op, x, y)

RECURSIVE Performed(_, _)
\* The attribute look-ups, calls and iterations eval performs on the way.
Performed(e, env) ==
  CASE e.k = "attr" ->
         LET x == PyEval(e.obj, env)
         IN Performed(e.obj, env)
            \cup (IF IsExc(x) THEN {}
                  ELSE {[op |-> "getattr", on |-> x, name |-> e.attr]})
    [] e.k = "call" ->
         LET f == PyEval(e.f, env)
         IN Performed(e.f, env)
            \cup (IF IsExc(f) THEN {} ELSE {[op |-> "call", on |-> f, name |-> ""]})
    [] e.k = "select" ->
         LET xs == PyEval(e.from, env)
         IN Performed(e.from, env)
            \cup (IF IsExc(xs) THEN {}
                  ELSE {[op |-> "iterate", on |-> xs, name |-> e.name]})
    [] e.k = "list" -> UNION {Performed(e.items[i], env) : i \in DOMAIN e.items}
    [] e.k = "bin" /\ e.op \in {"and", "or"} ->
         LET x == PyEval(e.l, env)
         IN Performed(e.l, env)
            \cup (IF ~IsExc(x) /\ Truthy(x) = (e.op = "and")
                  THEN Performed(e.r, env) ELSE {})
    [] e.k = "bin" /\ e.op \notin {"and", "or"} ->
         Performed(e.l, env)
         \cup (IF IsExc(PyEval(e.l, env)) THEN {} ELSE Performed(e.r, env))
    [] OTHER -> {}

----------------------------------------------------------------------------
(* eval_expr(expr, row, th) *)

\* Every expression of the rule table as bound at import.
ExprsOf(rules) ==
  UNION { {rules[r].gate[i].expr : i \in DOMAIN rules[r].gate}
          \cup {rules[r].signals[i].expr : i \in DOMAIN rules[r].signals}
          \cup {rules[r].modifiers[i].expr : i \in DOMAIN rules[r].modifiers}
          : r \in DOMAIN rules }

BoundExprs == ExprsOf(bind_placeholders(_raw_rules, DefaultThresholds))

\* Steps 2 and 3 (lines 130-136) and the defaults of lines 140-148 depend on
\* the expression text alone; their results for the rule table's texts are
\* computed once and looked up.
RewrittenText == [e \in BoundExprs |-> translate_fields(replace_operators(e))]

rewrite_text(e) ==
  IF e \in DOMAIN RewrittenText THEN RewrittenText[e]
  ELSE translate_fields(replace_operators(e))

DefaultsOfText ==
  [e \in {RewrittenText[x] : x \in BoundExprs} |-> defaults_for_text(e)]

defaults_of(e) ==
  IF e \in DOMAIN DefaultsOfText THEN DefaultsOfText[e] ELSE defaults_for_text(e)

\* The rewritten expression handed to eval (final), which holds NotFound
\* where lines 158-165 return False, and the text the defaults are read from.
with_brackets(text, th) == [text |-> text, final |-> subst_brackets(text, th)]

rewrite(expr, th) ==
  with_brackets(
    rewrite_text(subst_TH(subst_bare_thresholds(expr, th, 1), th)), th)

\* Lines 141-148: temp_row gets the default of every key it lacks.
inject_defaults(temp_row, e) ==
  LET dflt == defaults_of(e)
  IN [s \in DOMAIN temp_row \cup DOMAIN dflt |->
        IF s \in DOMAIN temp_row THEN temp_row[s] ELSE dflt[s]]

\* No handler: the exception leaves eval_expr.
on_exception_reraise(exc) == [value |-> FALSE, raised |-> TRUE]

\* The handlers are `except Exception`: SystemExit, KeyboardInterrupt and
\* GeneratorExit are not Exceptions and leave the call.
on_exception(exc) ==
  IF exc.e \in {"SystemExit", "KeyboardInterrupt", "GeneratorExit"}
  THEN [value |-> FALSE, raised |-> TRUE]
  ELSE [value |-> FALSE, raised |-> FALSE]

\* Lines 168-173: bool(result), or what the handlers make of an exception.
returned(result) ==
  IF IsExc(result) THEN on_exception(result)
  ELSE [value |-> Truthy(result), raised |-> FALSE]

\* Lines 89-94 and 140-168 on the rewritten expression rw.
evaluate(rw, row) ==
  IF NotFound \in Leaves(rw.final)
  THEN [value |-> FALSE, raised |-> FALSE]
  ELSE returned(PyEval(rw.final, inject_defaults(copy_row(row), rw.text)))

\* The call's outcome: the boolean returned and whether the call raised.
eval_expr(expr, row, th) == evaluate(rewrite(expr, fill_defaults(th)), row)

\* temp_row and row are one dict: what is stored in temp_row is stored in
\* the caller's row.
row_after_shared(row, temp_row) == temp_row

\* Lines 89-94 build temp_row as a new dict from row.items(), and lines
\* 141-148 store the defaults in temp_row: the caller's row is only read.
row_after(row, temp_row) == row

\* The caller's row once the call on the rewritten expression rw is over.
row_left(rw, row) ==
  row_after(row, inject_defaults(copy_row(row), rw.text))

performs(rw, row) ==
  IF NotFound \in Leaves(rw.final) THEN {}
  ELSE Performed(rw.final, inject_defaults(copy_row(row), rw.text))

\* What the eval of one eval_expr call performs.
eval_performs(expr, row, th) == performs(rewrite(expr, fill_defaults(th)), row)

\* The caller's row after eval_expr(expr, row, th).
eval_leaves_row(expr, row, th) == row_left(rewrite(expr, fill_defaults(th)), row)

----------------------------------------------------------------------------
(* app/services/scenario_engine.py *)

\* floor(10^9 / (1 + exp(-signal_score / (total_weight + 1e-5)))), tabulated
\* for the scores and total weights the rule table can produce.  Floats that
\* differ differ in the table, so comparing entries compares the floats.
SigmoidTable ==
  << -3, 3>> :> 268942076 @@ << -2, 3>> :> 339244129 @@ << -1, 3>> :> 417430063 @@
  <<0, 3>> :> 500000000 @@ <<1, 3>> :> 582569936 @@ <<2, 3>> :> 660755870 @@
  <<3, 3>> :> 731057923 @@ <<4, 3>> :> 791390738 @@ <<5, 3>> :> 841130152 @@
  <<6, 3>> :> 880796378 @@ <<7, 3>> :> 911599696 @@ <<8, 3>> :> 935030290 @@
  << -3, 4>> :> 320821709 @@ << -2, 4>> :> 377540962 @@ << -1, 4>> :> 437823652 @@
  <<0, 4>> :> 500000000 @@ <<1, 4>> :> 562176347 @@ <<2, 4>> :> 622459037 @@
  <<3, 4>> :> 679178290 @@ <<4, 4>> :> 731058087 @@ <<5, 4>> :> 777299320 @@
  <<6, 4>> :> 817573916 @@ <<7, 4>> :> 851952250 @@ <<8, 4>> :> 880796553

\* exp(x) in place of exp(-x): 1 / (1 + exp(x)) is 1 - sigmoid(x).
_sigmoid_sign_lost(signal_score, total_weight) ==
  1000000000 - SigmoidTable[<<signal_score, total_weight>>]

\* _sigmoid(signal_score / (total_weight + 1e-5)), in billionths.
_sigmoid(signal_score, total_weight) ==
  SigmoidTable[<<signal_score, total_weight>>]

\* round(p, 3), in thousandths.
round3(p) == (p + 500000) \div 1000000

RECURSIVE SumOver(_, _)
SumOver(xs, i) == IF i > Len(xs) THEN 0 ELSE xs[i] + SumOver(xs, i + 1)

\* str(value) after the `if value is None: value = ""` guard.
str_of(value) == IF value.t = "none" THEN [str |-> VStr("")] ELSE [str |-> value]

\* row.get(key, "")
row_get(row, key) == IF key \in DOMAIN row THEN row[key] ELSE VStr("")

\* The threshold test left out.
clears_always(signal_score, threshold) == TRUE

\* `>` in place of `>=`: a score equal to the threshold does not clear it.
clears_strict(signal_score, threshold) == signal_score > threshold

\* The score compared with 0 in place of the rule's threshold.
clears_nonnegative(signal_score, threshold) == signal_score >= 0

\* Line 62: `signal_score >= rule["threshold"]` ...
clears(signal_score, threshold) == signal_score >= threshold

\* The probability comparison left out: the last eligible rule wins.
better_last(prob, best_score) == TRUE

\* `>=` in place of `>`: a later rule of equal probability wins.
better_or_equal(prob, best_score) == prob >= best_score

\* ... and `prob > best_score`.
better(prob, best_score) == prob > best_score

\* any() in place of all().
gates_any(calls) == calls = <<>> \/ \E i \in DOMAIN calls : calls[i].value

\* all(eval_expr(g) for g in gate): the gates up to the first false one are
\* evaluated.
gates_pass(calls) == \A i \in DOMAIN calls : calls[i].value

\* One iteration of the loop over scenario_rules (lines 33-65), given what
\* the eval_expr calls on gates g, signals s and modifiers m return: the
\* rule's gate verdict, score, probability, factors, and whether a call raised.
rule_outcome(rule, row, g, s, m) ==
  LET passed == gates_pass(g)
      total_weight == SumOver([i \in DOMAIN rule.signals |->
                                 rule.signals[i].weight], 1)
      signal_score ==
          SumOver([i \in DOMAIN s |->
                     IF s[i].value THEN rule.signals[i].weight ELSE 0], 1)
        + SumOver([i \in DOMAIN m |->
                     IF m[i].value THEN rule.modifiers[i].delta ELSE 0], 1)
      hits == {i \in DOMAIN s : s[i].value}
      signal_factors ==
        [e \in {rule.signals[i].expr : i \in hits} |->
           str_of(row_get(row,
             rule.signals[CHOOSE i \in hits : rule.signals[i].expr = e].first))]
  IN IF ~passed
     THEN [ passed |-> FALSE, eligible |-> FALSE,
            raised |-> \E i \in DOMAIN g :
                         g[i].raised /\ \A j \in 1..(i - 1) : g[j].value ]
     ELSE [ passed |-> TRUE,
            raised |-> \/ \E i \in DOMAIN g : g[i].raised
                       \/ \E i \in DOMAIN s : s[i].raised
                       \/ \E i \in DOMAIN m : m[i].raised,
            signal_score |-> signal_score,
            total_weight |-> total_weight,
            prob |-> _sigmoid(signal_score, total_weight),
            eligible |-> signal_score >= rule.threshold,
            factors |-> signal_factors ]

\* The eval_expr calls of the iteration: gates (line 35), signals (line 43)
\* and modifiers (line 56).
evaluate_rule(rule, row, th) ==
  rule_outcome(rule, row,
    [i \in DOMAIN rule.gate |-> eval_expr(rule.gate[i].expr, row, th)],
    [i \in DOMAIN rule.signals |-> eval_expr(rule.signals[i].expr, row, th)],
    [i \in DOMAIN rule.modifiers |->
       eval_expr(rule.modifiers[i].expr, row, th)])

RECURSIVE score_loop(_, _, _, _)
\* The loop from rule i on, with the best so far.
score_loop(rules, outcome, i, best) ==
  IF i > Len(rules) THEN best
  ELSE IF outcome[i].raised THEN [best EXCEPT !.raised = TRUE]
  ELSE score_loop(rules, outcome, i + 1,
         IF /\ outcome[i].passed
            /\ clears(outcome[i].signal_score, rules[i].threshold)
            /\ better(outcome[i].prob, best.score)
         THEN [best EXCEPT !.scenario = rules[i].label,
                           !.score = outcome[i].prob,
                           !.factors = outcome[i].factors]
         ELSE best)

Outcomes(rules, row, th) ==
  [i \in DOMAIN rules |-> evaluate_rule(rules[i], row, th)]

\* Line 67.
return_of(best) ==
  [ label |-> best.scenario, probability |-> round3(best.score),
    key_metrics |-> best.factors, raised |-> best.raised ]

\* score_scenarios(row, user_msg): (label, round(probability, 3), factors),
\* or raised.
score_scenarios(rules, row, th) ==
  return_of(score_loop(rules, Outcomes(rules, row, th), 1,
              [scenario |-> "neutral", score |-> 0, factors |-> <<>>,
               raised |-> FALSE]))

----------------------------------------------------------------------------
(* Conversation states: app/services/conversation/state_manager.py *)

\* ConversationState, lines 16-24.
ConversationState ==
  [ GREETING |-> "greeting",
    EMOTION_ASSESSMENT |-> "emotion_assessment",
    FINANCE_ASSESSMENT |-> "finance_assessment",
    GENERAL_ADVICE |-> "general_advice",
    PRODUCT_RECOMMENDATION |-> "product_recommendation",
    RISK_WARNING |-> "risk_warning",
    FOLLOWUP |-> "followup" ]

\* d.get(key, default) on a dict given as a function.
dict_get(d, key, default) == IF key \in DOMAIN d THEN d[key] ELSE default

\* stress_index left out of the risk condition.
is_at_risk_skipping(is_delinquent, stress_index, is_negative, is_anxious) ==
  is_delinquent \/ (is_negative /\ is_anxious)

\* Line 125.
is_at_risk(is_delinquent, stress_index, is_negative, is_anxious) ==
  is_delinquent \/ stress_index > 70 \/ (is_negative /\ is_anxious)

\* followup goes back to the greeting.
after_followup_greeting == ConversationState.GREETING

\* Lines 170-173: where followup leads.
after_followup == ConversationState.EMOTION_ASSESSMENT

\* Lines 128-173: the branch of the current state, with the risk flag the
\* emotion_assessment branch reads.
state_branch(current_state, at_risk, keywords) ==
  CASE current_state = ConversationState.GREETING ->
         <<ConversationState.EMOTION_ASSESSMENT, <<"assess_emotion">> >>
    [] current_state = ConversationState.EMOTION_ASSESSMENT ->
         IF at_risk
         THEN <<ConversationState.RISK_WARNING, <<"warn_risk">> >>
         ELSE <<ConversationState.FINANCE_ASSESSMENT, <<"assess_finance">> >>
    [] current_state = ConversationState.FINANCE_ASSESSMENT ->
         IF "chucheon" \in keywords
         THEN <<ConversationState.PRODUCT_RECOMMENDATION,
                <<"recommend_product">> >>
         ELSE <<ConversationState.GENERAL_ADVICE, <<"provide_advice">> >>
    [] current_state = ConversationState.GENERAL_ADVICE ->
         <<ConversationState.FOLLOWUP, <<"followup">> >>
    [] current_state = ConversationState.PRODUCT_RECOMMENDATION ->
         <<ConversationState.FOLLOWUP, <<"followup">> >>
    [] current_state = ConversationState.RISK_WARNING ->
         <<ConversationState.FINANCE_ASSESSMENT, <<"assess_finance">> >>
    [] current_state = ConversationState.FOLLOWUP ->
         <<after_followup, <<"assess_emotion">> >>
    [] OTHER -> <<current_state, <<>> >>

\* Lines 175-183: the override once the branch has chosen.
risk_override(chosen, at_risk) ==
  IF at_risk /\ chosen[1] # ConversationState.RISK_WARNING
  THEN <<ConversationState.RISK_WARNING, <<"warn_risk">> >>
  ELSE chosen

\* transition_state(user_id, current_state, emotion_data, finance_data):
\* (next_state, actions).  The empty string stands for every falsy
\* current_state.
transition_state(current_state, emotion_data, finance_data) ==
  IF current_state = ""
  THEN <<ConversationState.GREETING, <<"greet">> >>
  ELSE risk_override(
         state_branch(current_state,
                      is_at_risk(dict_get(finance_data, "is_delinquent", FALSE),
                                 dict_get(finance_data, "stress_index", 0),
                                 dict_get(emotion_data, "is_negative", FALSE),
                                 dict_get(emotion_data, "is_anxious", FALSE)),
                      dict_get(finance_data, "keywords", {})),
         is_at_risk(dict_get(finance_data, "is_delinquent", FALSE),
                    dict_get(finance_data, "stress_index", 0),
                    dict_get(emotion_data, "is_negative", FALSE),
                    dict_get(emotion_data, "is_anxious", FALSE)))

\* A dict with the key absent, or bound to one of the values.
Optional(key, values) == {<<>>} \cup {key :> v : v \in values}

\* The current_state strings a call is made with: the seven states, a string
\* that names no state, and the empty string.
StateStrings ==
  {ConversationState[k] : k \in DOMAIN ConversationState} \cup {"unknown", ""}

\* emotion_data: the two flags transition_state reads, each present or not.
EmotionInputs ==
  {n @@ a : n \in Optional("is_negative", BOOLEAN),
            a \in Optional("is_anxious", BOOLEAN)}

\* finance_data: is_delinquent, stress_index on both sides of 70, and
\* keywords with and without the recommendation word.
FinanceInputs ==
  {d @@ s @@ k :
     d \in Optional("is_delinquent", BOOLEAN),
     s \in Optional("stress_index", {0, 70, 71, 100}),
     k \in Optional("keywords", {{}, {"chucheon"}, {"jeochuk"},
                                 {"jeochuk", "chucheon"}})}

NoTransition ==
  [current_state |-> "", emotion_data |-> <<>>, finance_data |-> <<>>,
   done |-> FALSE, next_state |-> "", actions |-> <<>>]

----------------------------------------------------------------------------
(* The stored conversation state: state_manager.py and flow_engine.py *)

\* No document of the user in conversation_states.
NoDocument == [stored |-> FALSE, current_state |-> "", conversation_count |-> 0]

\* _create_default_state, lines 185-195: the fields process reads.
_create_default_state ==
  [stored |-> FALSE, current_state |-> ConversationState.GREETING,
   conversation_count |-> 0]

\* get_state, lines 43-54: the user's document if a client is set and the
\* document exists, the default state otherwise.
get_state(db, doc) ==
  IF db = "mongo" /\ doc.stored THEN doc ELSE _create_default_state

\* update_state, lines 69-90: `$set` with upsert if a client is set; without
\* one nothing is stored.
update_state(db, doc, new_state) ==
  IF db = "mongo"
  THEN [stored |-> TRUE, current_state |-> new_state.current_state,
        conversation_count |-> new_state.conversation_count]
  ELSE doc

\* flow_engine.py lines 62-83: the update process builds from the state it
\* read.
state_update(state, emotion_data, finance_data) ==
  [current_state |-> transition_state(state.current_state, emotion_data,
                                      finance_data)[1],
   previous_state |-> state.current_state,
   conversation_count |-> state.conversation_count + 1,
   actions |-> transition_state(state.current_state, emotion_data,
                                finance_data)[2]]

\* The messages of one conversation: a calm one, one asking for a
\* recommendation, one from a user under stress.
FlowInputs ==
  { <<[is_negative |-> FALSE, is_anxious |-> FALSE],
      [is_delinquent |-> FALSE, stress_index |-> 0, keywords |-> {}]>>,
    <<[is_negative |-> FALSE, is_anxious |-> FALSE],
      [is_delinquent |-> FALSE, stress_index |-> 0,
       keywords |-> {"chucheon"}]>>,
    <<[is_negative |-> TRUE, is_anxious |-> TRUE],
      [is_delinquent |-> FALSE, stress_index |-> 71, keywords |-> {}]>> }

\* Messages processed in one behaviour.
MaxMessages == 3

\* db: the client the manager was built with; doc: the user's document;
\* tasks: the update_state tasks created and not finished; calls: process
\* calls returned; read: the state the latest call read; before: the
\* next_state the call before it decided; decided: the latest next_state.
NoConversation ==
  [db |-> "none", doc |-> NoDocument, tasks |-> <<>>, calls |-> 0,
   read |-> NoDocument, before |-> "", decided |-> ""]


----------------------------------------------------------------------------
(* The cache backend: app/core/redis_client.py *)

\* Coroutines that call get_redis in one behaviour.
MaxCallers == 4

Callers == 1..MaxCallers

\* Lines 74-75 at import: nothing tried, no client; no call made.  at is the
\* line a caller stands at, backend the client its proxy wraps, returned the
\* backends in the order the calls returned them.
NoRedis ==
  [_redis_tried |-> FALSE, _redis_client |-> "None", attempts |-> 0,
   at |-> [c \in Callers |-> "idle"], backend |-> [c \in Callers |-> ""],
   returned |-> <<>>]

\* Lines 176-179: the proxy over the Redis client if one is set, over
\* memory_cache otherwise.
proxy_over(_redis_client) ==
  IF _redis_client # "None" THEN "redis" ELSE "memory"

\* A dict as the sequence of its items, and a str that is the JSON text of
\* a value (json.dumps).
VDict(entries) == [t |-> "dict", entries |-> entries]
VJson(value) == [t |-> "str", json |-> value]

\* json.dumps(value)
json_dumps(value) == VJson(value)

\* The decimal text of a str, if it is one.
IsNumberText(text) == text \in {ToString(n) : n \in 0..9}
NumberOf(text) == CHOOSE n \in 0..9 : ToString(n) = text

\* Lines 20-24 of MemoryCache.get: json.loads of a str, and the str itself
\* when it is no JSON text.
json_loads_or_self(value) ==
  IF "json" \in DOMAIN value THEN value.json
  ELSE IF IsNumberText(value.s) THEN VInt(100 * NumberOf(value.s))
  ELSE value

\* What a call came to: a value, or an exception.
Returned(value) == [raised |-> FALSE, value |-> value]
Raised == [raised |-> TRUE, value |-> VNone]
NotCalled == [raised |-> FALSE, value |-> VObj("not called")]

\* MemoryCache.get, lines 18-25, on the value data holds for the key (VNone
\* for none).
memory_get(data) ==
  IF data.t = "str" THEN json_loads_or_self(data) ELSE data

\* MemoryCache.set, lines 27-32: the value data holds afterwards.
memory_set(value) ==
  IF value.t \in {"list", "dict"} THEN json_dumps(value) ELSE value

\* MemoryCache.lrange(key, 0, -1), lines 40-44: data.get(key, []) if it is
\* a list, else an empty list.
memory_lrange(data) ==
  IF data.t = "list" THEN data ELSE VList(<<>>)

\* A Redis key: absent, a string, or a list of strings.
RedisNone == [k |-> "none"]
RedisString(text) == [k |-> "string", text |-> text]
RedisList(items) == [k |-> "list", items |-> items]

\* The str the client sends for a value and reads back (decode_responses):
\* a str as it is, an int as its decimal text.
redis_encode(value) ==
  IF value.t = "int" THEN VStr(ToString(value.v \div 100)) ELSE value

\* GET: None for no key, the text of a string, WRONGTYPE for a list.
redis_get(stored) ==
  CASE stored.k = "none" -> Returned(VNone)
    [] stored.k = "string" -> Returned(stored.text)
    [] stored.k = "list" -> Raised

\* LRANGE key 0 -1: the items, none for no key, WRONGTYPE for a string.
redis_lrange(stored) ==
  CASE stored.k = "none" -> Returned(VList(<<>>))
    [] stored.k = "list" -> Returned(VList(stored.items))
    [] stored.k = "string" -> Raised

\* CacheProxy.set on Redis, lines 89-98: the key afterwards.  DEL, then
\* RPUSH of the items of a list (which the server refuses without items),
\* or SET of the JSON text of a dict, or SET of the value.
proxy_set_redis(value) ==
  CASE value.t = "list" ->
         IF value.items = <<>> THEN RedisNone
         ELSE RedisList([i \in DOMAIN value.items |->
                           redis_encode(value.items[i])])
    [] value.t = "dict" -> RedisString(json_dumps(value))
    [] OTHER -> RedisString(redis_encode(value))

\* Whether that call raises.
proxy_set_redis_raises(value) == value.t = "list" /\ value.items = <<>>

\* CacheProxy.get, lines 85-86: what the client's get returns.
proxy_get(backend, stored) ==
  IF backend = "redis" THEN redis_get(stored) ELSE Returned(memory_get(stored))

\* CacheProxy.lrange(key, 0, -1), lines 112-113.
proxy_lrange(backend, stored) ==
  IF backend = "redis" THEN redis_lrange(stored)
  ELSE Returned(memory_lrange(stored))

\* The values callers cache: session and product dicts, id lists, a token.
CacheValues ==
  { VDict(<< <<"user_id", VStr("u")>>, <<"turns", VInt(300)>> >>),
    VDict(<<>>),
    VList(<<VStr("s1"), VStr("s2")>>),
    VList(<<VStr("s1")>>),
    VList(<<VInt(100), VInt(200)>>),
    VList(<<>>),
    VStr("token"),
    VStr("7") }

\* set calls in one behaviour.
MaxSets == 2

\* Nothing cached: the key is in neither backend.
NoCache ==
  [backend |-> "memory", stored |-> VNone, sets |-> 0, value |-> VNone,
   set |-> NotCalled, got |-> NotCalled, ranged |-> NotCalled]

----------------------------------------------------------------------------
(* The chat history: app/services/generic_chat.py *)

\* Line 19.
MAX_HISTORY == 10

\* save_history calls in one behaviour, how many of them may be running at
\* once, and how many Redis commands may fail.
MaxSaves == 11
MaxRunning == 2
MaxFailures == 1

\* Lines 74-75: the two dicts of the n-th save.
user_data(n) == [role |-> "user", content |-> n]
bot_data(n) == [role |-> "assistant", content |-> n]

\* seq[-n:]
LastOf(seq, n) ==
  IF Len(seq) <= n THEN seq ELSE SubSeq(seq, Len(seq) - n + 1, Len(seq))

\* Lines 101-105, RPUSH or MemoryCache.rpush: both JSON texts appended.
rpush_pair(items, n) ==
  items \o <<json_dumps(user_data(n)), json_dumps(bot_data(n))>>

\* Line 106, LTRIM or MemoryCache.ltrim with (-MAX_HISTORY * 2, -1).
ltrim_history(items) == LastOf(items, MAX_HISTORY * 2)

\* Lines 113-118: the fallback appends the two dicts to memory_cache.
fallback_append(items, n) == items \o <<user_data(n), bot_data(n)>>

\* Lines 56-63: an item that is a str is parsed, any other kept.
parse_item(item) == IF "json" \in DOMAIN item THEN item.json ELSE item

\* load_history, lines 53-64: the list of the backend get_redis returned,
\* parsed.
load_history(h) ==
  [i \in DOMAIN (IF h.backend = "redis" THEN h.redis ELSE h.memory) |->
     parse_item((IF h.backend = "redis" THEN h.redis ELSE h.memory)[i])]

\* backend: what get_redis returns; redis: the list hist:<user> in Redis;
\* memory: memory_cache.data["hist:<user>"]; running: the calls between
\* their two commands; saved: the pairs in the order the calls stored them.
NoHistory ==
  [backend |-> "memory", redis |-> <<>>, memory |-> <<>>, started |-> 0,
   running |-> {}, failures |-> 0, saved |-> <<>>]

----------------------------------------------------------------------------
(* The rate limiter: app/core/dependencies.py *)

\* Line 33: the standard tier.
rate == 10
per == 60

\* get_rate_limit(tier), lines 26-38: every tier but premium and enterprise
\* gets the standard limit.
get_rate_limit(tier) ==
  CASE tier = "premium" -> [rate |-> 60, per |-> 60]
    [] tier = "enterprise" -> [rate |-> 1000, per |-> 60]
    [] OTHER -> [rate |-> rate, per |-> per]

\* Requests of one key in a behaviour, the threads of the pool serving
\* them, the seconds between two readings of the clock and the last
\* reading.
MaxRequests == 12
Workers == {1, 2}
ClockStep == 30
MaxClock == 60

\* The readings of the clock.
Clock == {t \in 0..MaxClock : t % ClockStep = 0}

\* Line 72: the recorded times less than `per` seconds old.
in_window(requests, timestamp, limit) ==
  SelectSeq(requests, LAMBDA req_time : timestamp - req_time < limit.per)

\* Line 75.
over_limit(requests, limit) == Len(requests) >= limit.rate

\* store: rate_limit_store[request_key]; now: time.time(); worker: where
\* each thread is in rate_limiter and the list it holds; accepted: how many
\* requests were let through at each time; rejected: how many got 429.
NoLimiter ==
  [store |-> <<>>, now |-> 0, served |-> 0,
   worker |-> [w \in Workers |-> [at |-> "idle", requests |-> <<>>,
                                  timestamp |-> 0]],
   accepted |-> [t \in Clock |-> 0], rejected |-> 0]

----------------------------------------------------------------------------
(* Risk evaluation: app/services/finance/analyzer.py and risk_evaluator.py *)

\* analyzer.py lines 19-31: the thresholds the evaluator reads.
AnalyzerThresholds == [LIQ_P20 |-> 30, LIQ_P80 |-> 70, STRESS_HIGH |-> 70]

\* max(0, min(100, x))
clamp100(x) == IF x < 0 THEN 0 ELSE IF x > 100 THEN 100 ELSE x

\* Lines 59-63 and 90-94: the values of the three newest months the row
\* holds; the rows of the model hold all three or none.
months(row, prefix) ==
  IF prefix \in DOMAIN row THEN row[prefix] ELSE <<>>

Sum3(xs) == xs[1] + xs[2] + xs[3]
SumSq3(xs) == xs[1] * xs[1] + xs[2] * xs[2] + xs[3] * xs[3]

\* Lines 66-87: the newest balance against 1.2 and 0.8 times the mean of
\* three, then the coefficient of variation (sample deviation over mean)
\* against 0.3, in whole numbers.
balance_trend(balances) ==
  IF Len(balances) < 3 THEN "stable"
  ELSE IF Sum3(balances) > 0
          /\ 50 * (3 * SumSq3(balances) - Sum3(balances) * Sum3(balances))
                > 3 * Sum3(balances) * Sum3(balances)
       THEN "unstable"
       ELSE IF 30 * balances[1] > 12 * Sum3(balances) THEN "increasing"
       ELSE IF 30 * balances[1] < 8 * Sum3(balances) THEN "decreasing"
       ELSE "stable"

\* Lines 97-105.
card_usage_trend(card_usages) ==
  IF Len(card_usages) < 3 THEN "stable"
  ELSE IF 30 * card_usages[1] > 12 * Sum3(card_usages) THEN "increasing"
  ELSE IF 30 * card_usages[1] < 8 * Sum3(card_usages) THEN "decreasing"
  ELSE "stable"

\* `"is_delinquent" in row and row["is_delinquent"]`
delinquent(row) == dict_get(row, "is_delinquent", FALSE)

\* Lines 108-128.
liquidity_score(row) ==
  clamp100(50
           + (IF months(row, "balance") # <<>> /\ months(row, "card_usage") # <<>>
                 /\ row.balance[1] > 0 /\ row.card_usage[1] # 0
              THEN IF row.card_usage[1] > row.balance[1] THEN 0 - 20
                   ELSE IF 10 * row.card_usage[1] < 3 * row.balance[1] THEN 10
                   ELSE 0
              ELSE 0)
           - (IF delinquent(row) THEN 30 ELSE 0))

\* Lines 131-151.
stress_index(row) ==
  clamp100((IF delinquent(row) THEN 50 ELSE 0)
           + (IF balance_trend(months(row, "balance")) = "decreasing"
              THEN 20 ELSE 0)
           + (IF card_usage_trend(months(row, "card_usage")) = "increasing"
              THEN 15 ELSE 0)
           + (IF liquidity_score(row) < AnalyzerThresholds.LIQ_P20
              THEN 15 ELSE 0))

\* evaluate_financial_health, lines 198-241.
health_score(row) ==
  clamp100(50
           + (IF liquidity_score(row) >= AnalyzerThresholds.LIQ_P80 THEN 15
              ELSE IF liquidity_score(row) <= AnalyzerThresholds.LIQ_P20
              THEN 0 - 15 ELSE 0)
           + (IF stress_index(row) >= AnalyzerThresholds.STRESS_HIGH
              THEN 0 - 20
              ELSE IF stress_index(row) <= 30 THEN 10 ELSE 0)
           - (IF delinquent(row) THEN 30 ELSE 0)
           + (IF balance_trend(months(row, "balance")) = "increasing" THEN 10
              ELSE IF balance_trend(months(row, "balance")) = "decreasing"
              THEN 0 - 10 ELSE 0)
           + (IF card_usage_trend(months(row, "card_usage")) = "increasing"
              THEN 0 - 5
              ELSE IF card_usage_trend(months(row, "card_usage")) = "decreasing"
              THEN 5 ELSE 0))

\* risk_evaluator.py lines 55-87: 100 - health_score, raised by 10 and 15
\* for the two emotion flags and clamped when emotion data is given.
risk_score(row, emotion_data) ==
  IF emotion_data = <<>> THEN 100 - health_score(row)
  ELSE clamp100(100 - health_score(row)
                + (IF dict_get(emotion_data, "is_negative", FALSE)
                   THEN 10 ELSE 0)
                + (IF dict_get(emotion_data, "is_anxious", FALSE)
                   THEN 15 ELSE 0))

\* The four levels: 정보, 주의, 경고, 심각, and the code point of the first
\* character of each (U+C815, U+C8FC, U+ACBD, U+C2EC), which decides the
\* comparison of two of them as Python strs.
WarningLevels == {"jeongbo", "juui", "gyeonggo", "simgak"}
CodePoint ==
  [jeongbo |-> 51221, juui |-> 51452, gyeonggo |-> 44221, simgak |-> 49900]

\* max(a, b) of two strs: b if it compares greater, else a.
py_max(a, b) == IF CodePoint[b] > CodePoint[a] THEN b ELSE a

\* Lines 97-101.
after_delinquency(row) ==
  IF delinquent(row) THEN "simgak" ELSE "jeongbo"

\* Lines 104-108.
after_stress(level, row) ==
  IF stress_index(row) >= AnalyzerThresholds.STRESS_HIGH
  THEN py_max(level, "gyeonggo") ELSE level

\* Lines 111-115.
after_liquidity(level, row) ==
  IF liquidity_score(row) <= AnalyzerThresholds.LIQ_P20
  THEN py_max(level, "juui") ELSE level

\* Lines 118-124.
after_risk_score(level, score) ==
  IF score >= 70 THEN py_max(level, "gyeonggo")
  ELSE IF score >= 50 THEN py_max(level, "juui")
  ELSE level

\* Lines 127-134.
after_emotion(level, emotion_data) ==
  IF emotion_data # <<>> /\ dict_get(emotion_data, "is_negative", FALSE)
     /\ dict_get(emotion_data, "is_anxious", FALSE)
  THEN py_max(level, "juui") ELSE level

\* evaluate_risk(row, emotion_data): the score and the warning level; an
\* empty row returns the defaults of lines 35-42.
evaluate_risk(row, emotion_data) ==
  IF row = <<>>
  THEN [risk_score |-> 50, warning_level |-> "jeongbo"]
  ELSE [risk_score |-> risk_score(row, emotion_data),
        warning_level |->
          after_emotion(
            after_risk_score(
              after_liquidity(after_stress(after_delinquency(row), row), row),
              risk_score(row, emotion_data)),
            emotion_data)]

\* Rows: is_delinquent true, false or absent; three months of balances
\* that are level, falling, rising or uneven, or absent; three months of
\* card usage that is level, rising, falling or low, or absent.
RiskRows ==
  {d @@ b @@ u :
     d \in Optional("is_delinquent", BOOLEAN),
     b \in Optional("balance", {<<100, 100, 100>>, <<70, 100, 100>>,
                                <<140, 100, 100>>, <<50, 100, 100>>}),
     u \in Optional("card_usage", {<<30, 30, 30>>, <<140, 100, 100>>,
                                   <<70, 100, 100>>, <<20, 20, 20>>})}

\* emotion_data: none, or the two flags.
RiskEmotions ==
  {<<>>} \cup {[is_negative |-> n, is_anxious |-> a] : n, a \in BOOLEAN}

NoRisk ==
  [row |-> <<>>, emotion_data |-> <<>>, done |-> FALSE, risk_score |-> 0,
   warning_level |-> ""]

----------------------------------------------------------------------------
(* Rows and statistics fed to the engine *)

Without(r, key) == [x \in DOMAIN r \ {key} |-> r[x]]
Override(r, key, value) ==
  [x \in DOMAIN r \cup {key} |-> IF x = key THEN value ELSE r[x]]
Merge(p, q) ==
  [x \in DOMAIN p \cup DOMAIN q |-> IF x \in DOMAIN q THEN q[x] ELSE p[x]]

\* Sparse customer rows, one for each rule of the table and the empty row.
Profiles ==
  { <<>>,
    [card_application_count |-> VInt(100), stress_index |-> VInt(8000),
     delinquent_days_b1m |-> VInt(500), is_delinquent |-> VStr("Y")],
    [card_application_count |-> VInt(100), limit_up_amount_r12m |-> VInt(100)],
    [delinquent_days_b1m |-> VInt(500), stress_index |-> VInt(8000),
     max_delinquent_months_r15m |-> VInt(100)],
    [limit_up_amount_r12m |-> VInt(100)],
    [avg_revolving_balance_3m |-> VInt(100), revolving_dependency |-> VFloat(80),
     revolving_count_3m |-> VInt(200)],
    [credit_usage_ratio |-> VInt(9500), delinquent_days_b1m |-> VInt(500),
     revolving_count_3m |-> VInt(200)],
    [delinquent_days_b1m |-> VInt(3000), delinquent_balance_b0m |-> VInt(100),
     max_delinquent_months_r15m |-> VInt(100)],
    [liquidity_score |-> VInt(1000), necessity_ratio |-> VFloat(90)],
    [debt_ratio |-> VInt(9500), delinquent_days_b1m |-> VInt(500),
     credit_usage_ratio |-> VInt(9500)],
    [credit_usage_3m |-> VInt(10000), monthly_approval_amount |-> VInt(1000)],
    [credit_usage_3m |-> VInt(10000), monthly_approval_amount |-> VInt(8000),
     recent_delinquent_days |-> VInt(3000),
     delinquent_balance_b0m |-> VInt(100)],
    [liquidity_score |-> VInt(8000), limit_up_available |-> VInt(100)],
    [max_delinquent_months_r15m |-> VInt(100)],
    [monthly_approval_count |-> VInt(2000), spending_shopping |-> VInt(10000),
     online_shopping_amount |-> VInt(1000)] }

\* Every identifier of the translated rule table is a key a row may hold.
RowKeys ==
  UNION { UNION { {Text(leaf.id) : leaf \in
                     {l \in Leaves(translate_fields(entries[i].expr)) :
                        l.k = "name"}} : i \in DOMAIN entries }
          : entries \in UNION { {_raw_rules[r].gate, _raw_rules[r].signals,
                                 _raw_rules[r].modifiers}
                                : r \in DOMAIN _raw_rules } }

\* One value of each Python type a row can hold, with numbers below and
\* above the rules' cut-offs.
RowValues ==
  { VNone, VStr("Y"), VStr("Gold"), VBool(TRUE), [t |-> "decimal", v |-> 4000],
    VInt(-100), VInt(0), VFloat(50), VInt(4000), VInt(600000000) }

\* The values the scoring runs put in place of a profile's.
Replacements ==
  { VNone, VStr("Gold"), VBool(TRUE), [t |-> "decimal", v |-> 4000],
    VInt(-100), VFloat(50), VInt(600000000) }

Rows ==
  Profiles
  \cup {Merge(p, q) : p, q \in Profiles}
  \cup {Override(p, key, value) : p \in Profiles, key \in RowKeys,
                                  value \in Replacements}
  \cup {Without(p, key) : p \in Profiles, key \in RowKeys}

\* Rows for the runs that refresh the thresholds: the profiles, with the
\* liquidity score and the debt ratio on either side of the old and the new
\* cut-offs.
LoadRows ==
  Profiles
  \cup {Override(p, key, value) : p \in Profiles,
                                  key \in {"liquidity_score", "debt_ratio"},
                                  value \in {VInt(300), VInt(1000), VInt(7000)}}

\* Rows for single eval_expr calls.
EvalRows ==
  Profiles
  \cup {Override(p, key, value) :
          p \in {<<>>, [credit_usage_3m |-> VInt(10000),
                        monthly_approval_amount |-> VInt(1000)]},
          key \in RowKeys, value \in RowValues}

\* Expressions for single eval_expr calls: the rule table's, the same with
\* their placeholders still in, and texts a rule author could write.
EvalExprs ==
  BoundExprs
  \cup { Malformed,
         Bin(">", Name(<<"unknown_field">>), Num(0, "int")),
         Bin(">=", Name(<<"Stress_Index">>), Ph("STRESS_HIGH")),
         Bin("<=", Name(<<"Liquidity_Score">>), Ph("LIQ_P20")),
         Bin(">", Name(<<"Liquidity_Score">>), Name(<<"LIQ_P80">>)),
         Bin("<", Name(<<"Stress_Index">>), Ph("UNKNOWN_LIMIT")),
         Bin("<", Name(<<"Stress_Index">>), Ph("UNKNOWN_P99")),
         Bin(">", Attr(Name(<<"math">>), "pi"), Num(300, "int")),
         Bin("==", Call(Attr(Name(<<"VIPdeunggeubkodeu">>), "upper")), Str("GOLD")),
         Bin("!=", Call(Attr(Attr(Attr(Tuple0, "__class__"), "__base__"),
                             "__subclasses__")), Num(0, "int")),
         Call(Call(Select(Call(Attr(Attr(Attr(Tuple0, "__class__"), "__base__"),
                                    "__subclasses__")), "Quitter"))) }

\* Comparisons with a placeholder, for one field and one threshold name.
Comparisons(name) ==
  {Bin(op, Name(<<"Stress_Index">>), Ph(name)) :
     op \in {"<", "<=", ">", ">=", "==", "!="}}

\* Expressions about the thresholds themselves: "{NAME} > 0" for the names
\* of the table, and comparisons with names no table holds.
ThresholdExprs ==
  {Bin(">", Ph(name), Num(0, "int")) : name \in DOMAIN DefaultThresholds}
  \cup Comparisons("UNKNOWN_LIMIT") \cup Comparisons("UNKNOWN_P99")
  \cup Comparisons("STRESS_HIGH")
  \cup {Bin(">", Name(<<"Liquidity_Score">>), Name(<<"LIQ_P80">>))}

\* Threshold tables a caller may pass: the module's, the module's after a
\* refresh (values above, at and below zero, integers and floats), and
\* tables that lack some or all of the names.
ThresholdTables ==
  { DefaultThresholds,
    Store(Store(DefaultThresholds, "LIQ_P20", VInt(500)), "LIQ_P80", VInt(2500)),
    Store(Store(DefaultThresholds, "LIQ_P20", VInt(0)), "STRESS_HIGH", VInt(0)),
    Store(Store(DefaultThresholds, "LIQ_P80", VInt(-500)),
          "STRESS_HIGH", VInt(-300)),
    Store(Store(DefaultThresholds, "NEC_P80", VFloat(0)), "NEC_P20", VFloat(-50)),
    Store(Store(DefaultThresholds, "STRESS_HIGH", VFloat(7550)),
          "CREDIT_USAGE_P90", VInt(0)),
    <<>>,
    [LIQ_P20 |-> VInt(500)],
    [STRESS_HIGH |-> VInt(-300), NEC_P80 |-> VFloat(0)] }

\* Rows for the calls about thresholds.
ThresholdRows ==
  { <<>>,
    [stress_index |-> VInt(8000)],
    [stress_index |-> VNone],
    [stress_index |-> [t |-> "decimal", v |-> 4000],
     liquidity_score |-> VInt(1000)] }

Quantiles(a, b, c, d, e, f, g) ==
  <<VInt(a), VInt(b), VInt(c), VInt(d), VInt(e), VInt(f), VInt(g)>>

\* Statistics handed to load_from_stats.
StatsInputs ==
  { [liquidity_score_q |-> Quantiles(0, 500, 1000, 1500, 2000, 2500, 3000)],
    [liquidity_score_q |-> Quantiles(0, 500, 1000, 1500, 2000, 2500, 3000),
     debt_ratio_q |-> Quantiles(0, 1000, 2000, 3000, 4000, 6000, 9000)] }

\* How many times load_from_stats is called in one behaviour.
MaxLoads == 1

\* score_scenarios calls followed on one row.
MaxCalls == 2

----------------------------------------------------------------------------
(* State *)

VARIABLES
  thresholds,      \* rules.thresholds.thresholds, the process-wide table
  scenario_rules,  \* rules.scenario_rules.scenario_rules, bound at import
  row,             \* the customer row of the request being served
  result,          \* what the last score_scenarios call returned
  loading,         \* the running load_from_stats call: stores to do and done
  loads,           \* load_from_stats calls started so far
  probe,           \* a single eval_expr call: its expression and outcome
  reply,           \* what get_finance_reply returned for the row
  transition,      \* a single transition_state call: its inputs and outcome
  conversation,    \* the stored conversation state and the calls of process
  redis,           \* _redis_tried, _redis_client and the get_redis calls
  history,         \* the chat history of one user in Redis and in memory
  limiter,         \* rate_limiter.requests of one key and the requests served
  risk,            \* a single evaluate_risk call: its inputs and outcome
  cache            \* one key of each backend behind CacheProxy

\* The rule engine's state and the state of the services around it.
engine == <<thresholds, scenario_rules, row, result, loading, loads, probe,
            reply>>
services == <<transition, conversation, redis, history, limiter, risk, cache>>

vars == <<thresholds, scenario_rules, row, result, loading, loads, probe,
          reply, transition, conversation, redis, history, limiter, risk,
          cache>>

NoCall   == [loads |-> 0, todo |-> 0, done |-> 0]
NoResult == [label |-> "", probability |-> 0, key_metrics |-> <<>>,
             raised |-> FALSE, returned |-> FALSE, at |-> NoCall, calls |-> 0]
NoProbe  == [expr |-> Malformed, value |-> FALSE, raised |-> FALSE,
             performed |-> {}, done |-> FALSE]
Idle     == [todo |-> <<>>, done |-> 0]
NoReply  == [returned |-> FALSE, raised |-> FALSE, text |-> <<>>,
             scenario_info |-> VNone]

\* After import: thresholds hold the module defaults and the rule table is
\* _raw_rules formatted with them (scenario_rules.py line 208).
Imported ==
  /\ thresholds = DefaultThresholds
  /\ scenario_rules = bind_placeholders(_raw_rules, DefaultThresholds)
  /\ result = NoResult
  /\ loading = Idle
  /\ loads = 0
  /\ reply = NoReply

\* No service has been called.
ServicesIdle ==
  /\ transition = NoTransition
  /\ conversation = NoConversation
  /\ redis = NoRedis
  /\ history = NoHistory
  /\ limiter = NoLimiter
  /\ risk = NoRisk
  /\ cache = NoCache

\* The engine imported and not called.
EngineIdle ==
  /\ Imported
  /\ row = <<>>
  /\ probe = NoProbe

Init ==
  /\ Imported
  /\ ServicesIdle
  /\ row \in Rows
  /\ probe = NoProbe

\* The loop has removed the rules it visited from the table.
rules_after_emptied(rules) == <<>>

\* Lines 33-60 read the rule table (.items(), rule.get, rule[...]) and
\* store nothing in it.
rules_after(rules) == rules

\* score_scenarios(row, user_msg).  The result remembers when the call read
\* the table: how many refreshes had started, and how many stores the running
\* one had left and had done, and how many calls the row has had.  eval_expr
\* adds the defaults it misses to the table it is given.
ScoreScenarios ==
  /\ result.calls < MaxCalls
  /\ result' = [returned |-> TRUE,
                calls |-> result.calls + 1,
                at |-> [loads |-> loads, todo |-> Len(loading.todo),
                        done |-> loading.done]] @@
               score_scenarios(scenario_rules, row, thresholds)
  /\ thresholds' = fill_defaults(thresholds)
  /\ scenario_rules' = rules_after(scenario_rules)
  /\ UNCHANGED <<row, loading, loads, probe, reply>>
  /\ UNCHANGED services

Next == ScoreScenarios

Spec == Init /\ [][Next]_vars

----------------------------------------------------------------------------
(* Scoring while the thresholds are refreshed *)

InitLoad ==
  /\ Imported
  /\ ServicesIdle
  /\ row \in LoadRows
  /\ probe = NoProbe

\* load_from_stats(stats) is entered: the stores it will perform.
LoadFromStats(stats) ==
  /\ loading.todo = <<>>
  /\ loads < MaxLoads
  /\ loading' = [todo |-> load_from_stats_writes(stats), done |-> 0]
  /\ loads' = loads + 1
  /\ UNCHANGED <<thresholds, scenario_rules, row, result, probe, reply>>
  /\ UNCHANGED services

\* The next `thresholds[...] = ...` of the running call.  Nothing in the
\* module keeps another thread from running between two of them.
LoadStore ==
  /\ loading.todo # <<>>
  /\ thresholds' = Store(thresholds, Head(loading.todo)[1], Head(loading.todo)[2])
  /\ loading' = [todo |-> Tail(loading.todo), done |-> loading.done + 1]
  /\ UNCHANGED <<scenario_rules, row, result, loads, probe, reply>>
  /\ UNCHANGED services

NextLoad ==
  \/ ScoreScenarios
  \/ \E stats \in StatsInputs : LoadFromStats(stats)
  \/ LoadStore

SpecLoad == InitLoad /\ [][NextLoad]_vars

----------------------------------------------------------------------------
(* Single calls of eval_expr *)

InitEval ==
  /\ ServicesIdle
  /\ scenario_rules = bind_placeholders(_raw_rules, DefaultThresholds)
  /\ result = NoResult
  /\ loading = Idle
  /\ loads = 0
  /\ reply = NoReply
  /\ \/ /\ thresholds = DefaultThresholds
        /\ row \in EvalRows
        /\ probe \in {[NoProbe EXCEPT !.expr = e] : e \in EvalExprs}
     \/ /\ thresholds \in ThresholdTables
        /\ row \in ThresholdRows
        /\ probe \in {[NoProbe EXCEPT !.expr = e] : e \in ThresholdExprs}

\* eval_expr(probe.expr, row, thresholds)
EvalExpr ==
  /\ ~probe.done
  /\ probe' = [expr |-> probe.expr, done |-> TRUE,
               performed |-> eval_performs(probe.expr, row, thresholds)] @@
              eval_expr(probe.expr, row, thresholds)
  /\ thresholds' = fill_defaults(thresholds)
  /\ row' = eval_leaves_row(probe.expr, row, thresholds)
  /\ UNCHANGED <<scenario_rules, result, loading, loads, reply>>
  /\ UNCHANGED services

NextEval == EvalExpr

SpecEval == InitEval /\ [][NextEval]_vars

----------------------------------------------------------------------------
(* The chat reply built on the engine's result *)

\* What the completion request comes to: a reply, a BadRequestError, or
\* another exception (lines 415-432 of finance_chat.py).
Completions == {"ok", "bad_request", "error"}

\* Lines 415-432: the model's text, or one of the two apologies naming the
\* label.
reply_text(completion, label) ==
  IF completion = "ok" THEN <<"advice">> ELSE <<completion, label>>

\* round(prob, 3) on the probability the engine has already rounded, in
\* thousandths.
round_again(probability) == round3(probability * 1000000)

\* Lines 435-443: the record, or None for the label "no_issue".
scenario_info_of(label, prob, metrics) ==
  IF label # "no_issue"
  THEN [label |-> label, probability |-> round_again(prob),
        key_metrics |-> metrics]
  ELSE VNone

\* Lines 367-451 once score_scenarios has returned or raised.  An exception
\* that eval_expr lets through is not an Exception, so the handler of line
\* 453 lets it through as well.
reply_on(scored, completion) ==
  IF scored.raised
  THEN [returned |-> FALSE, raised |-> TRUE, text |-> <<>>,
        scenario_info |-> VNone]
  ELSE [returned |-> TRUE, raised |-> FALSE,
        text |-> reply_text(completion, scored.label),
        scenario_info |-> scenario_info_of(scored.label, scored.probability,
                                           scored.key_metrics)]

\* Lines 359-364: without metrics the generic chat answers and no scenario
\* is reported.
generic_reply ==
  [returned |-> TRUE, raised |-> FALSE, text |-> <<"generic">>,
   scenario_info |-> VNone]

InitReply ==
  /\ Imported
  /\ ServicesIdle
  /\ row \in LoadRows
  /\ probe = NoProbe

\* get_finance_reply(user_id, user_msg) for the user whose metrics are row;
\* an empty row is falsy, like the None of a failed lookup.
GetFinanceReply(completion) ==
  /\ ~reply.returned
  /\ ~reply.raised
  /\ IF row = <<>>
     THEN /\ reply' = generic_reply
          /\ UNCHANGED <<thresholds, result>>
     ELSE /\ result' = [returned |-> TRUE,
                        calls |-> result.calls + 1,
                        at |-> [loads |-> loads, todo |-> Len(loading.todo),
                                done |-> loading.done]] @@
                       score_scenarios(scenario_rules, row, thresholds)
          /\ thresholds' = fill_defaults(thresholds)
          /\ reply' = reply_on(score_scenarios(scenario_rules, row, thresholds),
                               completion)
  /\ scenario_rules' = rules_after(scenario_rules)
  /\ UNCHANGED <<row, loading, loads, probe>>
  /\ UNCHANGED services

NextReply == \E completion \in Completions : GetFinanceReply(completion)

SpecReply == InitReply /\ [][NextReply]_vars
----------------------------------------------------------------------------
(* Single calls of transition_state *)

InitTransition ==
  /\ EngineIdle
  /\ transition \in
       {[NoTransition EXCEPT !.current_state = c, !.emotion_data = e,
                             !.finance_data = f] :
          c \in StateStrings, e \in EmotionInputs, f \in FinanceInputs}
  /\ conversation = NoConversation
  /\ redis = NoRedis
  /\ history = NoHistory
  /\ limiter = NoLimiter
  /\ risk = NoRisk
  /\ cache = NoCache

\* transition_state(user_id, transition.current_state,
\*                  transition.emotion_data, transition.finance_data)
TransitionState ==
  /\ ~transition.done
  /\ transition' =
       [transition EXCEPT
          !.done = TRUE,
          !.next_state = transition_state(transition.current_state,
                                          transition.emotion_data,
                                          transition.finance_data)[1],
          !.actions = transition_state(transition.current_state,
                                       transition.emotion_data,
                                       transition.finance_data)[2]]
  /\ UNCHANGED engine
  /\ UNCHANGED <<conversation, redis, history, limiter, risk, cache>>

NextTransition == TransitionState

SpecTransition == InitTransition /\ [][NextTransition]_vars

----------------------------------------------------------------------------
(* A conversation: process calls one after the other, updates in background *)

\* The manager is built without a client (chat_improved.py line 31) or with
\* one; the user has no document yet.
InitFlow ==
  /\ EngineIdle
  /\ transition = NoTransition
  /\ conversation \in {[NoConversation EXCEPT !.db = d] : d \in {"none", "mongo"}}
  /\ redis = NoRedis
  /\ history = NoHistory
  /\ limiter = NoLimiter
  /\ risk = NoRisk
  /\ cache = NoCache

\* The sequence without its i-th element.
RemoveAt(s, i) == [j \in 1..(Len(s) - 1) |-> IF j < i THEN s[j] ELSE s[j + 1]]

\* process(user_id, message, emotion_data, finance_data), lines 61-96: the
\* state is read, the transition decided, and the update handed to a task
\* that nobody awaits.
Process(emotion_data, finance_data) ==
  /\ conversation.calls < MaxMessages
  /\ conversation' =
       [conversation EXCEPT
          !.calls = @ + 1,
          !.read = get_state(conversation.db, conversation.doc),
          !.before = conversation.decided,
          !.decided = state_update(get_state(conversation.db, conversation.doc),
                                   emotion_data, finance_data).current_state,
          !.tasks = Append(@, state_update(get_state(conversation.db,
                                                     conversation.doc),
                                           emotion_data, finance_data))]
  /\ UNCHANGED engine
  /\ UNCHANGED <<transition, redis, history, limiter, risk, cache>>

\* One of the pending update_state tasks runs to its end (lines 69-86).
UpdateState(i) ==
  /\ i \in 1..Len(conversation.tasks)
  /\ conversation' =
       [conversation EXCEPT
          !.doc = update_state(conversation.db, @, conversation.tasks[i]),
          !.tasks = RemoveAt(@, i)]
  /\ UNCHANGED engine
  /\ UNCHANGED <<transition, redis, history, limiter, risk, cache>>

\* One of the pending tasks fails in update_one: lines 88-90 log the error
\* and return False to nobody.
UpdateStateFails(i) ==
  /\ i \in 1..Len(conversation.tasks)
  /\ conversation.db = "mongo"
  /\ conversation' = [conversation EXCEPT !.tasks = RemoveAt(@, i)]
  /\ UNCHANGED engine
  /\ UNCHANGED <<transition, redis, history, limiter, risk, cache>>

NextFlow ==
  \/ \E input \in FlowInputs : Process(input[1], input[2])
  \/ \E i \in 1..MaxMessages : UpdateState(i)
  \/ \E i \in 1..MaxMessages : UpdateStateFails(i)

SpecFlow == InitFlow /\ [][NextFlow]_vars

----------------------------------------------------------------------------
(* get_redis called by several coroutines *)

InitRedis ==
  /\ EngineIdle
  /\ transition = NoTransition
  /\ conversation = NoConversation
  /\ redis = NoRedis
  /\ history = NoHistory
  /\ limiter = NoLimiter
  /\ risk = NoRisk
  /\ cache = NoCache

\* Caller c has its proxy: lines 176-179.
Returns(r, c) ==
  [r EXCEPT !.at[c] = "returned",
            !.backend[c] = proxy_over(r._redis_client),
            !.returned = Append(@, proxy_over(r._redis_client))]

\* Caller c enters get_redis.  The first one sets _redis_tried (line 165)
\* and waits for the ping of line 170; any other goes on to line 176.
GetRedis(c) ==
  /\ redis.at[c] = "idle"
  /\ redis' =
       IF ~redis._redis_tried
       THEN [redis EXCEPT !._redis_tried = TRUE, !.attempts = @ + 1,
                          !.at[c] = "ping"]
       ELSE Returns(redis, c)
  /\ UNCHANGED engine
  /\ UNCHANGED <<transition, conversation, history, limiter, risk, cache>>

\* The ping is answered: line 171 stores the client and the call returns.
PingAnswered(c) ==
  /\ redis.at[c] = "ping"
  /\ redis' = Returns([redis EXCEPT !._redis_client = "Redis"], c)
  /\ UNCHANGED engine
  /\ UNCHANGED <<transition, conversation, history, limiter, risk, cache>>

\* The ping raises: lines 173-174 log it and the call returns.
PingRaises(c) ==
  /\ redis.at[c] = "ping"
  /\ redis' = Returns(redis, c)
  /\ UNCHANGED engine
  /\ UNCHANGED <<transition, conversation, history, limiter, risk, cache>>

NextRedis ==
  \/ \E c \in Callers : GetRedis(c)
  \/ \E c \in Callers : PingAnswered(c)
  \/ \E c \in Callers : PingRaises(c)

SpecRedis == InitRedis /\ [][NextRedis]_vars

----------------------------------------------------------------------------
(* One key behind CacheProxy *)

InitCache ==
  /\ EngineIdle
  /\ transition = NoTransition
  /\ conversation = NoConversation
  /\ redis = NoRedis
  /\ history = NoHistory
  /\ limiter = NoLimiter
  /\ risk = NoRisk
  /\ cache \in {NoCache, [NoCache EXCEPT !.backend = "redis",
                                         !.stored = RedisNone]}

\* CacheProxy.set(key, value)
ProxySet(value) ==
  /\ cache.sets < MaxSets
  /\ cache' =
       [cache EXCEPT
          !.sets = @ + 1,
          !.value = value,
          !.stored = IF cache.backend = "redis" THEN proxy_set_redis(value)
                     ELSE memory_set(value),
          !.set = IF cache.backend = "redis" /\ proxy_set_redis_raises(value)
                  THEN Raised ELSE Returned(VBool(TRUE)),
          !.got = NotCalled,
          !.ranged = NotCalled]
  /\ UNCHANGED engine
  /\ UNCHANGED <<transition, conversation, redis, history, limiter, risk>>

\* CacheProxy.get(key)
ProxyGet ==
  /\ cache.got = NotCalled
  /\ cache' = [cache EXCEPT !.got = proxy_get(cache.backend, cache.stored)]
  /\ UNCHANGED engine
  /\ UNCHANGED <<transition, conversation, redis, history, limiter, risk>>

\* CacheProxy.lrange(key, 0, -1)
ProxyLrange ==
  /\ cache.ranged = NotCalled
  /\ cache' = [cache EXCEPT
                 !.ranged = proxy_lrange(cache.backend, cache.stored)]
  /\ UNCHANGED engine
  /\ UNCHANGED <<transition, conversation, redis, history, limiter, risk>>

NextCache ==
  \/ \E value \in CacheValues : ProxySet(value)
  \/ ProxyGet
  \/ ProxyLrange

SpecCache == InitCache /\ [][NextCache]_vars

----------------------------------------------------------------------------
(* save_history calls of one user *)

InitHistory ==
  /\ EngineIdle
  /\ transition = NoTransition
  /\ conversation = NoConversation
  /\ redis = NoRedis
  /\ history \in {[NoHistory EXCEPT !.backend = b] : b \in {"redis", "memory"}}
  /\ limiter = NoLimiter
  /\ risk = NoRisk
  /\ cache = NoCache

\* save_history is called (lines 74-99): the pipeline is built.
SaveHistory ==
  /\ history.started < MaxSaves
  /\ Cardinality(history.running) < MaxRunning
  /\ history' = [history EXCEPT
                   !.started = @ + 1,
                   !.running = @ \cup {[n |-> history.started + 1,
                                        at |-> "rpush"]}]
  /\ UNCHANGED engine
  /\ UNCHANGED <<transition, conversation, redis, limiter, risk, cache>>

\* PipelineProxy.execute awaits the rpush (redis_client.py line 145).
PipeRpush(call) ==
  /\ call \in history.running
  /\ call.at = "rpush"
  /\ history' =
       [history EXCEPT
          !.redis = IF history.backend = "redis" THEN rpush_pair(@, call.n)
                    ELSE @,
          !.memory = IF history.backend = "memory" THEN rpush_pair(@, call.n)
                     ELSE @,
          !.saved = @ \o <<user_data(call.n), bot_data(call.n)>>,
          !.running = (@ \ {call}) \cup {[n |-> call.n, at |-> "ltrim"]}]
  /\ UNCHANGED engine
  /\ UNCHANGED <<transition, conversation, redis, limiter, risk, cache>>

\* PipelineProxy.execute awaits the ltrim (line 148) and the call returns.
PipeLtrim(call) ==
  /\ call \in history.running
  /\ call.at = "ltrim"
  /\ history' =
       [history EXCEPT
          !.redis = IF history.backend = "redis" THEN ltrim_history(@) ELSE @,
          !.memory = IF history.backend = "memory" THEN ltrim_history(@)
                     ELSE @,
          !.running = @ \ {call}]
  /\ UNCHANGED engine
  /\ UNCHANGED <<transition, conversation, redis, limiter, risk, cache>>

\* A command of the pipeline raises on Redis: lines 109-118 append the pair
\* to memory_cache and the call returns.  The pair counts as saved when
\* its rpush had not stored it.
PipeRaises(call) ==
  /\ call \in history.running
  /\ history.backend = "redis"
  /\ history.failures < MaxFailures
  /\ history' =
       [history EXCEPT
          !.memory = fallback_append(@, call.n),
          !.saved = IF call.at = "rpush"
                    THEN @ \o <<user_data(call.n), bot_data(call.n)>>
                    ELSE @,
          !.failures = @ + 1,
          !.running = @ \ {call}]
  /\ UNCHANGED engine
  /\ UNCHANGED <<transition, conversation, redis, limiter, risk, cache>>

NextHistory ==
  \/ SaveHistory
  \/ \E call \in history.running : PipeRpush(call)
  \/ \E call \in history.running : PipeLtrim(call)
  \/ \E call \in history.running : PipeRaises(call)

SpecHistory == InitHistory /\ [][NextHistory]_vars

----------------------------------------------------------------------------
(* Requests of one key passing rate_limiter, a dependency run in the
   thread pool *)

InitLimiter ==
  /\ EngineIdle
  /\ transition = NoTransition
  /\ conversation = NoConversation
  /\ redis = NoRedis
  /\ history = NoHistory
  /\ limiter = NoLimiter
  /\ risk = NoRisk
  /\ cache = NoCache

\* Lines 51-82 in thread w: the clock and the stored list are read, the
\* list is filtered, and the request is refused with 429 or its time added
\* to the thread's list.
RateLimiterChecks(w) ==
  /\ limiter.worker[w].at = "idle"
  /\ limiter.served < MaxRequests
  /\ limiter' =
       IF over_limit(in_window(limiter.store, limiter.now,
                               get_rate_limit("standard")),
                     get_rate_limit("standard"))
       THEN [limiter EXCEPT !.served = @ + 1, !.rejected = @ + 1]
       ELSE [limiter EXCEPT
               !.served = @ + 1,
               !.worker[w] =
                 [at |-> "store",
                  requests |-> Append(in_window(limiter.store, limiter.now,
                                                get_rate_limit("standard")),
                                      limiter.now),
                  timestamp |-> limiter.now]]
  /\ UNCHANGED engine
  /\ UNCHANGED <<transition, conversation, redis, history, risk, cache>>

\* Line 83 in thread w: the thread's list replaces the stored one and the
\* request goes on to its handler.
RateLimiterStores(w) ==
  /\ limiter.worker[w].at = "store"
  /\ limiter' =
       [limiter EXCEPT
          !.store = limiter.worker[w].requests,
          !.worker[w] = [at |-> "idle", requests |-> <<>>, timestamp |-> 0],
          !.accepted[limiter.worker[w].timestamp] = @ + 1]
  /\ UNCHANGED engine
  /\ UNCHANGED <<transition, conversation, redis, history, risk, cache>>

\* time.time() moves on.
ClockTicks ==
  /\ limiter.now < MaxClock
  /\ limiter' = [limiter EXCEPT !.now = @ + ClockStep]
  /\ UNCHANGED engine
  /\ UNCHANGED <<transition, conversation, redis, history, risk, cache>>

NextLimiter ==
  \/ \E w \in Workers : RateLimiterChecks(w)
  \/ \E w \in Workers : RateLimiterStores(w)
  \/ ClockTicks

SpecLimiter == InitLimiter /\ [][NextLimiter]_vars

----------------------------------------------------------------------------
(* Single calls of evaluate_risk *)

InitRisk ==
  /\ EngineIdle
  /\ transition = NoTransition
  /\ conversation = NoConversation
  /\ redis = NoRedis
  /\ history = NoHistory
  /\ limiter = NoLimiter
  /\ risk \in {[NoRisk EXCEPT !.row = r, !.emotion_data = e] :
                 r \in RiskRows, e \in RiskEmotions}
  /\ cache = NoCache

\* evaluate_risk(risk.row, risk.emotion_data)
EvaluateRisk ==
  /\ ~risk.done
  /\ risk' = [risk EXCEPT
                !.done = TRUE,
                !.risk_score = evaluate_risk(risk.row,
                                             risk.emotion_data).risk_score,
                !.warning_level = evaluate_risk(risk.row,
                                                risk.emotion_data).warning_level]
  /\ UNCHANGED engine
  /\ UNCHANGED <<transition, conversation, redis, history, limiter, cache>>

NextRisk == EvaluateRisk

SpecRisk == InitRisk /\ [][NextRisk]_vars

----------------------------------------------------------------------------
(* Properties of score_scenarios, checked under Spec *)

\* What each rule of the table comes to on the current row.
Outcome == Outcomes(scenario_rules, row, thresholds)

Scored == result.returned /\ ~result.raised
Rule   == DOMAIN scenario_rules

\* The eligible rules of largest probability.
Top(o) ==
  {w \in Rule : o[w].eligible
                 /\ \A j \in Rule : o[j].eligible => o[j].prob <= o[w].prob}

\* C1: when some rule passes its gates with a raw score at or above its own
\* threshold, the label returned is that of an eligible rule whose
\* probability is the largest among the eligible rules, and no rule whose
\* raw score is below its threshold is returned.
C1_EligibleMaximumWins ==
  Scored =>
    LET o == Outcome
    IN (\E i \in Rule : o[i].eligible) =>
         /\ \E w \in Top(o) : result.label = scenario_rules[w].label
         /\ \A i \in Rule :
              (o[i].passed /\ ~o[i].eligible) =>
                 result.label # scenario_rules[i].label

\* Two eligible rules of different probability; the larger is returned.
C1_Witness ==
  /\ Scored
  /\ LET o == Outcome
     IN \E w \in Top(o) :
          /\ result.label = scenario_rules[w].label
          /\ \E j \in Rule : o[j].eligible /\ o[j].prob < o[w].prob

\* A rule below its threshold whose probability beats the winner's.
C1_BelowThresholdCase ==
  /\ Scored
  /\ LET o == Outcome
     IN \E w \in Top(o) :
          /\ result.label = scenario_rules[w].label
          /\ \E i \in Rule : /\ o[i].passed /\ ~o[i].eligible
                              /\ o[i].prob > o[w].prob

GateFails(rule) ==
  \E i \in DOMAIN rule.gate :
     ~eval_expr(rule.gate[i].expr, row, thresholds).value

\* C2: a rule one of whose gate expressions is false on the row is never the
\* rule whose label and metrics are returned.
C2_GateIsVeto ==
  Scored =>
    \A r \in Rule :
       result.label = scenario_rules[r].label => ~GateFails(scenario_rules[r])

\* A rule with a false gate whose signals alone would reach its threshold.
C2_Witness ==
  /\ Scored
  /\ \E r \in Rule :
       /\ GateFails(scenario_rules[r])
       /\ evaluate_rule([scenario_rules[r] EXCEPT !.gate = <<>>],
                        row, thresholds).eligible

\* C3: if no rule both passes its gates and reaches its threshold, the call
\* returns "neutral", 0.0 and an empty metrics map.
C3_NeutralWhenNoneEligible ==
  Scored =>
    LET o == Outcome
    IN (\A i \in Rule : ~o[i].eligible) =>
         /\ result.label = "neutral"
         /\ result.probability = 0
         /\ DOMAIN result.key_metrics = {}

\* No rule is eligible although one passes its gates with true signals.
C3_Witness ==
  /\ Scored
  /\ result.label = "neutral"
  /\ LET o == Outcome
     IN /\ \A i \in Rule : ~o[i].eligible
        /\ \E i \in Rule : o[i].passed /\ o[i].signal_score > 0

\* C4: among eligible rules of equal, maximal probability the first in table
\* order is returned.
C4_FirstOfEqualsWins ==
  Scored =>
    LET o == Outcome
    IN \A a, b \in Top(o) : a < b => result.label # scenario_rules[b].label

\* Two eligible rules share the largest probability and the earlier is
\* returned.
C4_Witness ==
  /\ Scored
  /\ LET o == Outcome
     IN \E a, b \in Top(o) : a < b /\ result.label = scenario_rules[a].label

Labels == {scenario_rules[r].label : r \in DOMAIN scenario_rules}

\* An expression of the rule table whose evaluation raises inside eval_expr.
RaisesInside(r) ==
  \E e \in BoundExprs :
     IsExc(PyEval(rewrite(e, thresholds).final,
                  inject_defaults(copy_row(r), rewrite(e, thresholds).text)))

\* C5: for every row the call returns a (label, probability, key_metrics)
\* triple and does not raise; the rows include the profiles with any one key
\* removed and with any one value replaced by a value of another type.
C5_NeverRaises ==
  result.returned =>
    /\ ~result.raised
    /\ result.label \in Labels \cup {"neutral"}
    /\ result.probability \in 0..1000

\* A row with a null where a number is compared, and a row with a key
\* removed.
C5_Witness ==
  /\ Scored
  /\ RaisesInside(row)
  /\ \/ \E key \in DOMAIN row : row[key] = VNone
     \/ \E p \in Profiles, key \in RowKeys :
          key \in DOMAIN p /\ row = Without(p, key)

----------------------------------------------------------------------------
(* Properties of eval_expr, checked under SpecEval *)

\* C6: whatever the expression, the row and the threshold table, an
\* eval_expr call returns a boolean and does not raise.
C6_NeverRaises == probe.done => ~probe.raised

\* The sandbox the description promises: attributes are read off the math
\* module only and nothing but a math function is called.
InsideSandbox(ev) ==
  \/ ev.op = "getattr" /\ ev.on = VObj("math")
  \/ ev.op = "call" /\ ev.on \in {VObj("math." \o f) : f \in MathFunctions}

\* C7: the evaluation of an expression reads no attribute of any object
\* outside the math namespace and calls nothing but a math helper.
C7_SandboxOnly ==
  probe.done => \A ev \in probe.performed : InsideSandbox(ev)

----------------------------------------------------------------------------
(* Properties of the threshold refresh, checked under SpecLoad *)

\* A call that started after the one refresh it could see had finished.
AfterLoad ==
  /\ result.returned
  /\ result.at.loads > 0
  /\ result.at.loads = loads
  /\ result.at.todo = 0
  /\ loading.todo = <<>>

\* C8: a score_scenarios call made after load_from_stats has finished
\* evaluates the rules with the values now in the table: it returns what the
\* rule table with its placeholders read from the refreshed table gives.
C8_ScoringUsesLoadedThresholds ==
  AfterLoad =>
     result.label =
        score_scenarios(bind_placeholders(_raw_rules, thresholds),
                        row, thresholds).label

\* C9: no score_scenarios call reads the table while some but not all of the
\* stores of one load_from_stats call have been made.
C9_NoTornRead ==
  result.returned => ~(result.at.todo > 0 /\ result.at.done > 0)

----------------------------------------------------------------------------
(* Defaults for missing fields, checked under SpecEval *)

\* The identifiers left in the expression once it is rewritten, math aside.
FieldNames(expr) ==
  {leaf.id : leaf \in {l \in Leaves(rewrite(expr, fill_defaults(thresholds)).final) :
                          l.k = "name" /\ Text(l.id) # "math"}}

\* The row with the stated default under every field name it lacks.
WithDefaults(r, expr) ==
  LET ids == FieldNames(expr)
  IN [s \in DOMAIN r \cup {Text(id) : id \in ids} |->
        IF s \in DOMAIN r THEN r[s]
        ELSE default_for(CHOOSE id \in ids : Text(id) = s)]

\* C10: an expression of the rule table evaluates on a row that lacks one of
\* its fields exactly as on the same row holding the default for that field
\* (0 for card_application_count, False for is_/has_ keys, 0.0 otherwise).
C10_MissingFieldIsDefault ==
  (probe.done /\ probe.expr \in BoundExprs) =>
     probe.value = eval_expr(probe.expr, WithDefaults(row, probe.expr),
                             thresholds).value

----------------------------------------------------------------------------
(* Placeholders and the threshold table, checked under SpecEval *)

ComparisonOperators == {"<", "<=", ">", ">=", "==", "!="}

\* The call compared something with a placeholder whose name is neither in
\* the table passed nor among the built-in defaults.
ComparesUnknown ==
  /\ probe.done
  /\ probe.expr.k = "bin"
  /\ probe.expr.op \in ComparisonOperators
  /\ probe.expr.r.k = "ph"
  /\ probe.expr.r.name \notin DOMAIN thresholds \cup DOMAIN default_thresholds

\* C11: a comparison with a placeholder {NAME} whose name is in neither the
\* table nor the built-in defaults is False, whatever the comparison
\* operator and whether or not the name has a digit, and does not raise.
C11_UnknownPlaceholderIsFalse ==
  ComparesUnknown => ~probe.value /\ ~probe.raised

\* The case that is not False: "!=" against a name without a digit.
C11_NotEqualUnknown ==
  /\ ComparesUnknown
  /\ probe.expr.op = "!="
  /\ probe.expr.r.name \in DigitFreeNames
  /\ probe.value

\* The expression "{NAME} > 0".
PositiveTest(name) == Bin(">", Ph(name), Num(0, "int"))

\* The names whose "{NAME} > 0" the call now starting evaluates.
TestedNames == {n \in DOMAIN thresholds : probe.expr = PositiveTest(n)}

C12_ChangedPositive ==
  /\ probe.done
  /\ probe.value
  /\ \E n \in DOMAIN default_thresholds :
        /\ probe.expr = PositiveTest(n)
        /\ thresholds[n] # default_thresholds[n]

----------------------------------------------------------------------------
(* What a call leaves behind, checked under SpecEval *)

\* The dict the expression of the finished call was evaluated in.
temp_row_of_call ==
  inject_defaults(copy_row(row), rewrite(probe.expr, thresholds).text)

\* C13: eval_expr does not modify the row it is given: after the call the
\* caller's row has the keys and the values it had before, although the
\* evaluation ran with defaults added and Decimal values converted.
C13_RowUntouched == [][EvalExpr => row' = row]_vars

\* A finished call that evaluated with a default added for an absent field
\* and with a Decimal of the row converted to a float.
C13_Witness ==
  /\ probe.done
  /\ \E key \in DOMAIN row : row[key].t = "decimal"
  /\ DOMAIN temp_row_of_call # DOMAIN row

\* C14: eval_expr does not modify the threshold table it is given, also
\* when the table lacks a name that has a built-in default.
C14_TableUntouched == [][EvalExpr => thresholds' = thresholds]_vars

----------------------------------------------------------------------------
(* The returned tuple, checked under Spec *)

RECURSIVE FirstName(_)
\* The identifier an expression starts with.
FirstName(e) ==
  CASE e.k = "name"   -> e.id
    [] e.k = "bin"    -> FirstName(e.l)
    [] e.k = "attr"   -> FirstName(e.obj)
    [] e.k = "call"   -> FirstName(e.f)
    [] e.k = "select" -> FirstName(e.from)
    [] OTHER          -> <<>>

\* The row key of the field a signal expression refers to: its first
\* identifier, under the name the row stores it by.
FieldOf(e) == Text(translate_id(FirstName(e), 1))

\* The signals of the returned rule that are true on the row.
TrueSignals ==
  {s \in UNION {{r.signals[i] : i \in DOMAIN r.signals} :
                  r \in {scenario_rules[w] : w \in
                           {v \in Rule : scenario_rules[v].label = result.label}}} :
     eval_expr(s.expr, row, thresholds).value}

\* C15: every key_metrics entry of the returned rule is keyed by the
\* expression text of one of its signals that is true on the row, and its
\* value is the string form of the row's value for the field that signal
\* refers to.
C15_KeyMetricsAreRowValues ==
  Scored =>
    \A e \in DOMAIN result.key_metrics :
       /\ e \in {s.expr : s \in TrueSignals}
       /\ result.key_metrics[e] = str_of(row_get(row, FieldOf(e)))

\* A returned entry that is the empty string although the row holds a value
\* for the signal's field.
C15_EmptyForPresentField ==
  /\ Scored
  /\ \E e \in DOMAIN result.key_metrics :
        /\ FieldOf(e) \in DOMAIN row
        /\ row[FieldOf(e)].t # "none"
        /\ result.key_metrics[e] = str_of(VStr(""))

\* The keys alone: each is a true signal of the returned rule.
C15_KeysAreTrueSignals ==
  Scored => DOMAIN result.key_metrics \subseteq {s.expr : s \in TrueSignals}

\* C16: the probability returned lies in [0, 1]; it is 0.0 exactly when the
\* label is "neutral", and for every other label it is above 0.5 and at
\* most 1.  Probabilities are in thousandths.
C16_ProbabilityRange ==
  Scored =>
    /\ result.probability \in 0..1000
    /\ result.probability = 0 <=> result.label = "neutral"
    /\ result.label # "neutral" =>
         result.probability > 500 /\ result.probability <= 1000

\* A rule returned on the smallest score that reaches a threshold of the
\* table: 2 out of a total weight of 4.
C16_Witness ==
  /\ Scored
  /\ result.label # "neutral"
  /\ result.probability = round3(_sigmoid(2, 4))

----------------------------------------------------------------------------
(* Calling twice, checked under SpecLoad *)

\* No load_from_stats call has started or stored anything since the last
\* score_scenarios call read the table.
NoLoadSince ==
  result.at = [loads |-> loads, todo |-> Len(loading.todo),
               done |-> loading.done]

\* C17: a score_scenarios call that follows another on the same row, with
\* no load_from_stats in between, returns the same label, probability and
\* key_metrics: what the first call left in the row, the threshold table
\* and the rule table does not change the second call's result.
C17_SecondCallSame ==
  [][(ScoreScenarios /\ result.returned /\ NoLoadSince) =>
        /\ result'.label = result.label
        /\ result'.probability = result.probability
        /\ result'.key_metrics = result.key_metrics
        /\ result'.raised = result.raised]_vars

\* A second call on the row has returned a rule, and no load_from_stats
\* call has started before it.
C17_Witness ==
  /\ Scored
  /\ result.calls = 2
  /\ loads = 0
  /\ result.label # "neutral"
  /\ result.key_metrics # <<>>

----------------------------------------------------------------------------
(* The probability as a function of the signals, checked under Spec *)

\* The eval_expr results of a rule's expressions on the current row.
Calls(items) == [i \in DOMAIN items |-> eval_expr(items[i].expr, row, thresholds)]

\* The signal results with signal i true.
TurnedOn(s, i) == [s EXCEPT ![i].value = TRUE]

\* With the gate and modifier results g and m held, no signal that is false
\* in s lowers the rule's probability when it is turned true.
NoSignalLowers(rule, g, s, m) ==
  \A i \in {j \in DOMAIN s : ~s[j].value} :
     rule_outcome(rule, row, g, TurnedOn(s, i), m).prob
       >= rule_outcome(rule, row, g, s, m).prob

\* Some false signal of s raises the rule's probability when turned true.
SomeSignalRaises(rule, g, s, m) ==
  \E i \in {j \in DOMAIN s : ~s[j].value} :
     rule_outcome(rule, row, g, TurnedOn(s, i), m).prob
       > rule_outcome(rule, row, g, s, m).prob

\* The rules whose gates pass on the current row.
PassedRules == {w \in Rule : gates_pass(Calls(scenario_rules[w].gate))}

\* C18: for a rule whose gates pass, with the gate and modifier outcomes of
\* the row held fixed, turning one more signal from false to true never
\* decreases the probability computed for the rule; and the probability is
\* non-decreasing in the raw score for a given total weight.
C18_MoreSignalsNeverLower ==
  Scored =>
    /\ \A w \in PassedRules :
          NoSignalLowers(scenario_rules[w], Calls(scenario_rules[w].gate),
                         Calls(scenario_rules[w].signals),
                         Calls(scenario_rules[w].modifiers))
    /\ \A a, b \in DOMAIN SigmoidTable :
          (a[2] = b[2] /\ a[1] <= b[1]) =>
             _sigmoid(a[1], a[2]) <= _sigmoid(b[1], b[2])

\* A row on which a rule passes its gates with a true modifier and a false
\* signal, and turning that signal true raises its probability.
C18_Witness ==
  /\ Scored
  /\ \E w \in PassedRules :
        /\ \E i \in DOMAIN scenario_rules[w].modifiers :
              Calls(scenario_rules[w].modifiers)[i].value
        /\ SomeSignalRaises(scenario_rules[w], Calls(scenario_rules[w].gate),
                            Calls(scenario_rules[w].signals),
                            Calls(scenario_rules[w].modifiers))

----------------------------------------------------------------------------
(* The low_cash example, checked under Spec *)

\* The low_cash rule of the table, and what it comes to on the current row.
low_cash == CHOOSE w \in Rule : scenario_rules[w].label = "low_cash"

\* The row of the example: the table holds the defaults, liquidity_score is
\* 10 and the signal Necessity_Ratio >= NEC_P80 is true.
LowCashRow ==
  /\ thresholds = DefaultThresholds
  /\ "liquidity_score" \in DOMAIN row
  /\ row["liquidity_score"] = VInt(1000)
  /\ eval_expr(scenario_rules[low_cash].signals[1].expr, row, thresholds).value

\* C19: with the default thresholds, for a row with liquidity_score = 10 in
\* which the signal Necessity_Ratio >= NEC_P80 is true, score_scenarios
\* returns the label "low_cash" with a probability above 0.5.
C19_LowCashExample ==
  (Scored /\ LowCashRow) =>
     result.label = "low_cash" /\ result.probability > 500

\* No other rule keeps low_cash from being returned: none before it in the
\* table is eligible with a probability as high, and none after it with a
\* higher one.
LowCashIsBest(o) ==
  \A j \in Rule \ {low_cash} :
     o[j].eligible =>
        IF j < low_cash THEN o[j].prob < o[low_cash].prob
                        ELSE o[j].prob <= o[low_cash].prob

\* C19 as amended: on such a row the low_cash rule passes its gate, and
\* score_scenarios returns "low_cash" with a probability above 0.5 when the
\* rule's raw score reaches its threshold of 3 and no other rule is eligible
\* with a probability that takes precedence.
C19_LowCashWhenBest ==
  (Scored /\ LowCashRow) =>
     LET o == Outcome
     IN /\ o[low_cash].passed
        /\ (o[low_cash].eligible /\ LowCashIsBest(o)) =>
              result.label = "low_cash" /\ result.probability > 500

\* The example's row with a raw score of exactly 3, returned as low_cash
\* while another rule is eligible with a lower probability.
C19_Witness ==
  /\ Scored
  /\ LowCashRow
  /\ result.label = "low_cash"
  /\ LET o == Outcome
     IN /\ o[low_cash].signal_score = scenario_rules[low_cash].threshold
        /\ \E j \in Rule \ {low_cash} : o[j].eligible

----------------------------------------------------------------------------
(* The scenario reported with the reply, checked under SpecReply *)

\* The engine ran for the reply and both returned.
Replied == reply.returned /\ Scored

\* The engine's result when it detects no scenario (lines 29-31 and 67 of
\* scenario_engine.py).
DetectedNothing ==
  /\ result.label = "neutral"
  /\ result.probability = 0
  /\ result.key_metrics = <<>>

\* C20: get_finance_reply reports the scenario as None exactly when the
\* engine's result is its "no scenario" sentinel, and otherwise as a record
\* carrying the engine's label, probability and key_metrics.
C20_NoneExactlyForNoScenario ==
  Replied =>
    /\ reply.scenario_info = VNone <=> DetectedNothing
    /\ reply.scenario_info # VNone =>
         /\ reply.scenario_info.label = result.label
         /\ reply.scenario_info.probability = result.probability
         /\ reply.scenario_info.key_metrics = result.key_metrics

\* The record half alone: whatever is reported carries the engine's result.
C20_RecordCarriesResult ==
  (Replied /\ reply.scenario_info # VNone) =>
     /\ reply.scenario_info.label = result.label
     /\ reply.scenario_info.probability = result.probability
     /\ reply.scenario_info.key_metrics = result.key_metrics

\* A reply that reports the record of the "neutral" result.
C20_NeutralReported ==
  /\ Replied
  /\ DetectedNothing
  /\ reply.scenario_info # VNone
----------------------------------------------------------------------------
(* Conversation states *)

\* The risk condition of the call made: is_delinquent, or stress_index above
\* 70, or is_negative together with is_anxious; a key left out counts as
\* False or 0.
RiskHolds ==
  \/ dict_get(transition.finance_data, "is_delinquent", FALSE)
  \/ dict_get(transition.finance_data, "stress_index", 0) > 70
  \/ /\ dict_get(transition.emotion_data, "is_negative", FALSE)
     /\ dict_get(transition.emotion_data, "is_anxious", FALSE)

\* C21: for every non-empty current_state, unknown strings included, a call
\* of transition_state under the risk condition returns risk_warning with
\* the actions ["warn_risk"]; from risk_warning it therefore stays there.
C21_RiskLeadsToWarning ==
  (transition.done /\ transition.current_state # "" /\ RiskHolds)
    => /\ transition.next_state = "risk_warning"
       /\ transition.actions = <<"warn_risk">>

\* A call from a string that names no state, at risk by stress_index alone.
C21_Witness ==
  /\ transition.done
  /\ transition.current_state = "unknown"
  /\ ~dict_get(transition.finance_data, "is_delinquent", FALSE)
  /\ dict_get(transition.finance_data, "stress_index", 0) = 71
  /\ ~dict_get(transition.emotion_data, "is_negative", FALSE)
  /\ transition.next_state = "risk_warning"

\* C22 as claimed: a process call made after another has returned reads as
\* current_state the next_state that one decided, and once the background
\* updates have finished the stored conversation_count is the number of
\* messages processed.
C22_NoStaleReadNoLostUpdate ==
  /\ conversation.calls >= 2
       => conversation.read.current_state = conversation.before
  /\ (conversation.calls >= 1 /\ conversation.tasks = <<>>)
       => conversation.doc.conversation_count = conversation.calls

\* The transition table without risk: the next state and the single action
\* of each of the seven states.
NoRiskTable(current_state, recommend) ==
  CASE current_state = "greeting" -> <<"emotion_assessment", 1>>
    [] current_state = "emotion_assessment" -> <<"finance_assessment", 1>>
    [] current_state = "finance_assessment" ->
         IF recommend THEN <<"product_recommendation", 1>>
                      ELSE <<"general_advice", 1>>
    [] current_state = "general_advice" -> <<"followup", 1>>
    [] current_state = "product_recommendation" -> <<"followup", 1>>
    [] current_state = "risk_warning" -> <<"finance_assessment", 1>>
    [] current_state = "followup" -> <<"emotion_assessment", 1>>

\* C27: without risk, greeting leads to emotion_assessment, that to
\* finance_assessment, that to product_recommendation if the keywords hold
\* the recommendation word and to general_advice otherwise, general_advice
\* and product_recommendation to followup, risk_warning to
\* finance_assessment and followup to emotion_assessment, each with one
\* action; and no call from a non-empty state returns greeting.
C27_TransitionTable ==
  transition.done =>
    /\ (~RiskHolds
        /\ transition.current_state \in
             {ConversationState[k] : k \in DOMAIN ConversationState})
         => <<transition.next_state, Len(transition.actions)>> =
              NoRiskTable(transition.current_state,
                          "chucheon" \in dict_get(transition.finance_data,
                                                  "keywords", {}))
    /\ transition.current_state # "" => transition.next_state # "greeting"

\* A call from followup without risk, which returns emotion_assessment.
C27_Witness ==
  /\ transition.done
  /\ transition.current_state = "followup"
  /\ ~RiskHolds
  /\ transition.next_state = "emotion_assessment"
  /\ transition.actions = <<"assess_emotion">>

----------------------------------------------------------------------------
(* The cache backend *)

\* C23 as claimed: all get_redis calls that have returned, those entered
\* during the first call's ping included, wrap the same backend, Redis if
\* the connection attempt succeeded and the memory cache if it failed; and
\* at most one attempt is made.
C23_OneBackend ==
  /\ \A c, d \in Callers :
       (redis.at[c] = "returned" /\ redis.at[d] = "returned")
         => redis.backend[c] = redis.backend[d]
  /\ \A c \in Callers :
       (redis.at[c] = "returned" /\ \A d \in Callers : redis.at[d] # "ping")
         => redis.backend[c] = proxy_over(redis._redis_client)
  /\ redis.attempts <= 1

\* C28 as claimed: on either backend, get after set of a dict returns a
\* value equal to the dict, and lrange(key, 0, -1) after set of a list
\* returns the items of the list.
C28_RoundTrip ==
  /\ (cache.value.t = "dict" /\ cache.got # NotCalled)
       => cache.got = Returned(cache.value)
  /\ (cache.value.t = "list" /\ cache.ranged # NotCalled)
       => cache.ranged = Returned(cache.value)

----------------------------------------------------------------------------
(* The chat history *)

\* C24 as claimed: once the save_history calls made have returned, with
\* failed pipelines and interleaved calls among them, the user's stored
\* history has at most 2 * MAX_HISTORY entries and they are the most
\* recently saved pairs in the order they were saved; the memory cache's
\* list is bounded in the same way.
C24_HistoryBounded ==
  history.running = {} =>
    /\ Len(load_history(history)) <= 2 * MAX_HISTORY
    /\ load_history(history) = LastOf(history.saved, 2 * MAX_HISTORY)
    /\ Len(history.memory) <= 2 * MAX_HISTORY

\* The length alone, for the save whose trim fails.
C24_LengthBounded ==
  history.running = {} => Len(load_history(history)) <= 2 * MAX_HISTORY

----------------------------------------------------------------------------
(* The rate limiter *)

RECURSIVE SumCounts(_, _)
SumCounts(count, times) ==
  IF times = {} THEN 0
  ELSE LET t == CHOOSE u \in times : TRUE
       IN  count[t] + SumCounts(count, times \ {t})

\* Requests accepted in the `per` seconds ending at t.
AcceptedWithin(t) ==
  SumCounts(limiter.accepted, {u \in Clock : u <= t /\ t - u < per})

\* C25 as claimed: for the key, the requests accepted within any window of
\* `per` seconds are never more than `rate`, and a request refused with 429
\* is not recorded.
C25_NeverOverRate ==
  /\ \A t \in DOMAIN limiter.accepted : AcceptedWithin(t) <= rate
  /\ Len(limiter.store) <= rate

----------------------------------------------------------------------------
(* Risk evaluation *)

\* The levels of the warning conditions that hold for the call made: 심각
\* for a delinquency, 경고 for a stress index at STRESS_HIGH or more, 주의
\* for a liquidity score at LIQ_P20 or less, 경고 for a risk score of 70 or
\* more and 주의 for one of 50 or more, 주의 for a negative and anxious
\* user; 정보 when none holds.
TriggeredLevels ==
  {"jeongbo"}
  \cup (IF delinquent(risk.row) THEN {"simgak"} ELSE {})
  \cup (IF stress_index(risk.row) >= AnalyzerThresholds.STRESS_HIGH
        THEN {"gyeonggo"} ELSE {})
  \cup (IF liquidity_score(risk.row) <= AnalyzerThresholds.LIQ_P20
        THEN {"juui"} ELSE {})
  \cup (IF risk.risk_score >= 70 THEN {"gyeonggo"}
        ELSE IF risk.risk_score >= 50 THEN {"juui"} ELSE {})
  \cup (IF risk.emotion_data # <<>> /\ risk.emotion_data.is_negative
           /\ risk.emotion_data.is_anxious
        THEN {"juui"} ELSE {})

\* 정보 < 주의 < 경고 < 심각
Severity == [jeongbo |-> 0, juui |-> 1, gyeonggo |-> 2, simgak |-> 3]

\* C26 as claimed: the warning_level evaluate_risk returns is the most
\* severe of the levels whose conditions triggered, so that of a delinquent
\* user is 심각.
C26_MostSevereLevel ==
  (risk.done /\ risk.row # <<>>) =>
    /\ risk.warning_level \in TriggeredLevels
    /\ \A level \in TriggeredLevels :
         Severity[level] <= Severity[risk.warning_level]
    /\ delinquent(risk.row) => risk.warning_level = "simgak"

----------------------------------------------------------------------------
(* Every rule can be selected *)

\* The keys rows are translated to: the values of _FIELD_MAPPING.
CanonicalKeys == {Text(_FIELD_MAPPING[i].en) : i \in DOMAIN _FIELD_MAPPING}

\* The profiles whose keys are all canonical.
CanonicalProfiles == {r \in Profiles : DOMAIN r \subseteq CanonicalKeys}

\* C29: each of the 14 rules is selectable: with the rule table and the
\* thresholds as they stand (the defaults), there is for each rule a row of
\* canonical keys only on which score_scenarios returns the rule's label.
C29_EveryRuleSelectable ==
  {_raw_rules[i].name : i \in DOMAIN _raw_rules}
    \subseteq {score_scenarios(scenario_rules, r, thresholds).label :
                 r \in CanonicalProfiles}

\* The last rule of the table returned for a row of canonical keys, under
\* the default thresholds.
C29_Witness ==
  /\ result.returned
  /\ result.label = _raw_rules[Len(_raw_rules)].name
  /\ row \in CanonicalProfiles
  /\ thresholds = DefaultThresholds
  /\ Len(_raw_rules) = 14
====
